---- MODULE Spec2Model ----
(***************************************************************************)
(* A model of the NVRemoted relay server's concurrent session engine       *)
(* (package server: registry, channel tasks, per-client reader, handler    *)
(* and supervisor goroutines).                                             *)
(*                                                                         *)
(* Every goroutine is a small program counter; every blocking point of the *)
(* Go code (an unbuffered channel rendezvous, a send on the buffered       *)
(* events channel, the registry lock) separates two actions.  Go slices    *)
(* are modelled with their backing array and capacity, because the roster  *)
(* a joiner receives shares its backing array with the channel's member    *)
(* list.                                                                   *)
(***************************************************************************)
EXTENDS Integers, Sequences, FiniteSets, TLC

(***************************************************************************)
(* Bounds of the model.                                                    *)
(***************************************************************************)
\* connections accepted over the lifetime of the server (ids 0..MaxClients-1)
MaxClients == 3
\* messages decoded from the peers, all sessions together
MaxReads == 3
\* connections open at the same time
MaxLive == 2
\* ticks of the ping ticker
MaxTicks == 1
\* calls made on the NVRD object of pkg/nvremoted
MaxOps == 5

(***************************************************************************)
(* Program constants.                                                      *)
(***************************************************************************)
\* events: make(chan Message, 1)
EventsCap == 1
\* len(c.name) == 68
E2eNameLen == 68

Clients == 0 .. (MaxClients - 1)

\* a nil *channel
NoChannel == "<nil>"

\* a plain channel: its name has the prefix of an end-to-end encrypted channel
\* but not the length
PlainName == "E2E_room1"
\* an end-to-end encrypted channel
E2eName == "E2E_0123456789abcdef0123456789abcdef0123456789abcdef0123456789abcdef"
ChannelNames == {PlainName, E2eName}

ConnTypes == {"master"}
\* decoded JSON objects of a type no verb is registered for: a key press, and
\* a key press that names an origin of its own
NoObject == [k \in {} |-> ""]
KeyObject == [type |-> "key"]
ForgedObject == [type |-> "key", origin |-> 99]
Payloads == {KeyObject, ForgedObject}

\* the zero value of channelMember (a backing-array cell never written)
ZeroMember == [id |-> 0, connectionType |-> ""]

channelMember(id, connectionType) ==
    [id |-> id, connectionType |-> connectionType]

(***************************************************************************)
(* Go slices of channelMember: a backing array arr (Len(arr) is the        *)
(* capacity) and a length len.  All slices of the program start at index 0 *)
(* of their backing array.                                                 *)
(***************************************************************************)
EmptySlice == [arr |-> <<>>, len |-> 0]

SliceElems(s) == SubSeq(s.arr, 1, s.len)

\* capacity chosen by append when the backing array is full
GrowCap(cap) == IF cap = 0 THEN 1 ELSE 2 * cap

\* append reallocates iff the slice is at capacity
AppendReallocates(s) == s.len = Len(s.arr)

\* c.members = append(c.members, m)
GoAppend(s, m) ==
    IF AppendReallocates(s)
    THEN [arr |-> [k \in 1 .. GrowCap(Len(s.arr)) |->
                     IF k <= s.len THEN s.arr[k]
                     ELSE IF k = s.len + 1 THEN m ELSE ZeroMember],
          len |-> s.len + 1]
    ELSE [arr |-> [s.arr EXCEPT ![s.len + 1] = m], len |-> s.len + 1]

GoRemoveAt_keepLen(s, i) ==
    [arr |-> [k \in 1 .. Len(s.arr) |->
                IF k < i THEN s.arr[k]
                ELSE IF k < s.len THEN s.arr[k + 1] ELSE s.arr[k]],
     len |-> s.len]

\* c.members = append(c.members[:i], c.members[i+1:]...), i counted from 1:
\* the tail is copied down inside the same backing array
GoRemoveAt(s, i) ==
    [arr |-> [k \in 1 .. Len(s.arr) |->
                IF k < i THEN s.arr[k]
                ELSE IF k < s.len THEN s.arr[k + 1] ELSE s.arr[k]],
     len |-> s.len - 1]

\* position of the member with this id in the slice, 0 if absent
IndexOf(s, id) ==
    IF \E k \in 1 .. s.len : s.arr[k].id = id
    THEN CHOOSE k \in 1 .. s.len :
            /\ s.arr[k].id = id
            /\ \A j \in 1 .. (k - 1) : s.arr[j].id # id
    ELSE 0

(***************************************************************************)
(* Messages.                                                               *)
(***************************************************************************)
\* internal events (type Message, told apart by Name())
joinedChannelMSG(m) ==
    [name |-> "joined_channel", member |-> m, origin |-> m.id, msg |-> NoObject]
leftChannelMSG(m) ==
    [name |-> "left_channel", member |-> m, origin |-> m.id, msg |-> NoObject]
channelMessage(origin, msg) ==
    [name |-> "channel_message", member |-> ZeroMember, origin |-> origin, msg |-> msg]
pingMessage ==
    [name |-> "ping", member |-> ZeroMember, origin |-> 0, msg |-> NoObject]

\* decoded client messages
ClientJoinMessage(ch, ct) ==
    [name |-> "join", channel |-> ch, connectionType |-> ct, msg |-> NoObject]
RelayMessage(p) ==
    [name |-> "channel_message", channel |-> "", connectionType |-> "", msg |-> p]

\* a message whose type is "pong": no clientMessages entry, so it decodes as
\* a channelMessage like any other unknown type
PongMessage == RelayMessage([type |-> "pong"])
ClientProtocolVersionMessage(v) ==
    [name |-> "protocol_version", channel |-> "", connectionType |-> "", msg |-> NoObject,
     version |-> v]
ClientStatMessage(pw) ==
    [name |-> "stat", channel |-> "", connectionType |-> "", msg |-> NoObject,
     password |-> pw]

ClientInputs ==
    {ClientJoinMessage(n, t) : n \in ChannelNames, t \in ConnTypes}
        \cup {RelayMessage(p) : p \in Payloads}

\* responses written to the peer
ClientErrorResponse(reason) ==
    [type |-> "error", error |-> reason, clients |-> <<>>, channel |-> "",
     origin |-> 0, client |-> ZeroMember, msg |-> NoObject]
ClientChannelJoinedResponse(clients, ch, origin) ==
    [type |-> "channel_joined", error |-> "", clients |-> clients, channel |-> ch,
     origin |-> origin, client |-> ZeroMember, msg |-> NoObject]
ClientClientJoinedResponse(m) ==
    [type |-> "client_joined", error |-> "", clients |-> <<>>, channel |-> "",
     origin |-> 0, client |-> m, msg |-> NoObject]
ClientClientLeftResponse(m) ==
    [type |-> "client_left", error |-> "", clients |-> <<>>, channel |-> "",
     origin |-> 0, client |-> m, msg |-> NoObject]
ClientStatsResponse(stats) ==
    [type |-> "stats", error |-> "", clients |-> <<>>, channel |-> "",
     origin |-> 0, client |-> ZeroMember, msg |-> NoObject, stats |-> stats]
withOrigin_keep(m, id) ==
    IF "origin" \in DOMAIN m THEN m
    ELSE [k \in DOMAIN m \cup {"origin"} |-> IF k = "origin" THEN id ELSE m[k]]

\* for k, v := range msg { resp[k] = v }; resp["origin"] = origin
withOrigin(m, id) ==
    [k \in DOMAIN m \cup {"origin"} |-> IF k = "origin" THEN id ELSE m[k]]

\* the ClientResponse map of handleClientChannelEvent: msg is the object on
\* the wire
ClientMOTDResponse(motd) ==
    [type |-> "motd", error |-> "", clients |-> <<>>, channel |-> "",
     origin |-> 0, client |-> ZeroMember, msg |-> NoObject,
     motd |-> motd, force_display |-> FALSE]
ClientResponse(msg, origin) ==
    [type |-> "relay", error |-> "", clients |-> <<>>, channel |-> "",
     origin |-> origin, client |-> ZeroMember, msg |-> withOrigin(msg, origin)]

(***************************************************************************)
(* State.                                                                  *)
(***************************************************************************)
VARIABLES
    nextID,          \* acceptClients: id of the next accepted connection
    reads,           \* number of messages decoded so far (bounded by traffic)
    connBroken,      \* [client] a write on the connection has failed: Encode fails from then on
    rdPc,            \* [client] readFromClient: off, read, waitNext, done
    hdPc,            \* [client] handleClient: off, select, joinLock, joinSend, joinWait,
                     \*          joinCopy, msgSend, penalty, done
    hdReq,           \* [client] the client message the handler is processing, or was
                     \*          processing when it stopped the client
    hdRes,           \* [client] result received from joinChannel's req.resp
    supPc,           \* [client] supervisor: off, wait, leaveSend, leaveWait, closed
    clChannel,       \* [client] c.channel
    stopped,         \* [client] c.stopped
    stopReason,      \* [client] c.stopReason
    events,          \* [client] c.events (buffered, capacity EventsCap)
    eventsClosed,    \* [client] c.events has been closed
    sent,            \* [client] responses encoded onto the connection, in order
    regClients,      \* registry.clients: id -> channelMember
    regChannels,     \* registry.channels: the names that are keys of the map
    numE2eChannels,  \* registry.numE2eChannels
    maxChannels,     \* registry.maxChannels
    maxClients,      \* registry.maxClients
    maxChannelsTime, \* registry.maxChannelsTime
    maxClientsTime,  \* registry.maxClientsTime
    chMembers,       \* [name] channel.members (a slice)
    chPending,       \* [name] channel.pendingJoins
    chPc,            \* [name] channel.start: none, idle, joinBcast, partBcast, partLock,
                     \*        msgBcast
    chIdx,           \* [name] position of the running range loop over c.members
    chEv,            \* [name] the event being delivered by the running loop
    chReq,           \* [name] the member to append (join) or to remove (part)
    ticks,           \* number of ticks of the ping ticker so far (bounded by MaxTicks)
    pingPc,          \* Server.Serve: idle, or loop while it holds registry.lock.RLock
    pingTodo,        \* ids the running range over registry.clients has yet to visit
    crashed,         \* the process has panicked
    pingsUntilTimeout, \* Server.PingsUntilTimeout (configuration, never changes)
    statsPassword,   \* Server.StatsPassword (configuration, never changes)
    MOTD,            \* Server.MOTD (configuration, never changes)
    traffic,         \* number of messages the peers send in all (never changes)
    nvrd,            \* pkg/nvremoted: the NVRD object, the messages put on each
                     \*   client's Send channel, and the error of the last call
    nvCall,          \* pkg/nvremoted: the last call made on the NVRD object
    nvOps            \* pkg/nvremoted: number of calls so far (bounded by MaxOps)

vars == <<nextID, reads, connBroken, rdPc, hdPc, hdReq, hdRes, supPc,
          clChannel, stopped, stopReason, events, eventsClosed, sent,
          regClients, regChannels, numE2eChannels, maxChannels, maxClients,
          maxChannelsTime, maxClientsTime,
          chMembers, chPending, chPc, chIdx, chEv, chReq,
          ticks, pingPc, pingTodo, crashed, pingsUntilTimeout, statsPassword, MOTD,
          traffic, nvrd, nvCall, nvOps>>

clientVars == <<connBroken, rdPc, hdPc, hdReq, hdRes, supPc, clChannel,
                stopped, stopReason, events, eventsClosed, sent>>
registryVars == <<regClients, regChannels, numE2eChannels, maxChannels, maxClients,
                  maxChannelsTime, maxClientsTime>>
channelVars == <<chMembers, chPending, chPc, chIdx, chEv, chReq>>
configVars == <<pingsUntilTimeout, statsPassword, MOTD, traffic>>
nvrdVars == <<nvrd, nvCall, nvOps>>
serverVars == <<ticks, pingPc, pingTodo, crashed, configVars, nvrdVars>>

NoReq == ClientJoinMessage("", "")
NoRes == [ok |-> FALSE, shared |-> FALSE, data |-> <<>>, len |-> 0, atJoin |-> <<>>]
NoEvent == channelMessage(0, NoObject)

(***************************************************************************)
(* pkg/nvremoted: the lock-based NVRD object.  Every exported method holds *)
(* clientsMTX and channelsMTX from entry to return, so a call is one step. *)
(* The record nv carries the NVRD fields (clients: id -> the name of c.ch, *)
(* channels: name -> members), the messages put on each client's Send      *)
(* channel in order (send), the Send channels that were closed (closed)    *)
(* and the error the call returns (err, "" for nil).                       *)
(***************************************************************************)
WarnIfNotEncrypted == TRUE
UnencryptedWarning ==
    "Your traffic will pass through this server unencrypted. Please consider upgrading to a version of NVDA Remote that supports end to end encryption."

\* nvremoted.New, with an empty MOTD
New ==
    [clients |-> [c \in {} |-> NoChannel],
     channels |-> [n \in {} |-> <<>>],
     maxChannels |-> 0,
     numUnencryptedChannels |-> 0,
     maxClients |-> 0,
     numUnencryptedClients |-> 0,
     send |-> [c \in Clients |-> <<>>],
     closed |-> {},
     err |-> ""]

newMOTDMessage(motd, forceDisplay) ==
    [type |-> "motd", motd |-> motd, force_display |-> forceDisplay]
newChannelJoinedMessage(id, name, members) ==
    [type |-> "channel_joined", origin |-> id, channel |-> name, clients |-> members]
newClientJoinedMessage(member) == [type |-> "client_joined", client |-> member]
newClientLeftMessage(member, reason) ==
    [type |-> "client_left", client |-> member, reason |-> reason]

\* errors.New / errors.Wrap
failed(nv, text) == [nv EXCEPT !.err = text]
Wrap(nv, text) == [nv EXCEPT !.err = text \o ": " \o @]

\* channel.encrypted
encrypted(name) ==
    /\ Len(name) >= Len("E2E_")
    /\ SubSeq(name, 1, Len("E2E_")) = "E2E_"
    /\ Len(name) = 68

\* position of the member with this ID in a member list, 0 when there is none
memberIndex(members, id) ==
    IF \E i \in 1 .. Len(members) : members[i].id = id
    THEN CHOOSE i \in 1 .. Len(members) :
             /\ members[i].id = id
             /\ \A j \in 1 .. (i - 1) : members[j].id # id
    ELSE 0

\* channel.broadcast: one send per member, in order, skipping excludeIDs
broadcastTo(send, members, msg, excludeIDs) ==
    [c \in DOMAIN send |->
        IF memberIndex(members, c) # 0 /\ c \notin excludeIDs
        THEN Append(send[c], msg)
        ELSE send[c]]

\* NVRD.AddClient
AddClient(nv, id) ==
    IF id \in DOMAIN nv.clients
    THEN failed(nv, "Client already exists")
    ELSE LET clients == [c \in DOMAIN nv.clients \cup {id} |->
                            IF c = id THEN NoChannel ELSE nv.clients[c]]
         IN  [nv EXCEPT !.clients = clients,
                        !.maxClients = IF Cardinality(DOMAIN clients) > @
                                       THEN Cardinality(DOMAIN clients) ELSE @,
                        !.err = ""]

\* NVRD.leaveChannel with channel.leave
leaveChannel(nv, id, reason) ==
    IF id \notin DOMAIN nv.clients THEN failed(nv, "Client not found")
    ELSE IF nv.clients[id] = NoChannel THEN failed(nv, "Client not in a channel")
    ELSE LET name == nv.clients[id]
             members == nv.channels[name]
             i == memberIndex(members, id)
         IN  IF i = 0 THEN failed(nv, "Member ID not in channel")
             ELSE LET rest == SubSeq(members, 1, i - 1)
                                \o SubSeq(members, i + 1, Len(members))
                      more == Len(rest) # 0
                      chEncrypted == encrypted(name)
                  IN  [nv EXCEPT
                        !.send = broadcastTo(@, rest,
                                     newClientLeftMessage(members[i], reason), {}),
                        !.channels = IF more
                                     THEN [@ EXCEPT ![name] = rest]
                                     ELSE [n \in DOMAIN @ \ {name} |-> @[n]],
                        !.numUnencryptedChannels =
                            IF ~more /\ ~chEncrypted THEN @ - 1 ELSE @,
                        !.numUnencryptedClients =
                            IF ~chEncrypted THEN @ - 1 ELSE @,
                        !.clients[id] = NoChannel,
                        !.err = ""]

\* the test c.ch != nil of JoinChannel
inChannel_never(nv, id) == FALSE
inChannel(nv, id) == nv.clients[id] # NoChannel

\* NVRD.JoinChannel with channel.join
JoinChannel(nv, name, connectionType, id) ==
    IF id \notin DOMAIN nv.clients THEN failed(nv, "Client not found")
    ELSE
    LET left == IF inChannel(nv, id)
                THEN leaveChannel(nv, id, "Client switched channels")
                ELSE [nv EXCEPT !.err = ""]
    IN
    IF left.err # "" THEN Wrap(left, "Join channel")
    ELSE
    LET existing == name \in DOMAIN left.channels
        members == IF existing THEN left.channels[name] ELSE <<>>
        member == [id |-> id, connectionType |-> connectionType]
        chEncrypted == encrypted(name)
    IN
    IF memberIndex(members, id) # 0 THEN failed(left, "Already in channel")
    ELSE
    LET joined == Append(members, member)
        channels == [n \in DOMAIN left.channels \cup {name} |->
                        IF n = name THEN joined ELSE left.channels[n]]
        told == broadcastTo(left.send, members, newClientJoinedMessage(member), {})
        welcomed == [told EXCEPT ![id] =
                        Append(@, newChannelJoinedMessage(id, name, members))]
        warned == IF ~chEncrypted /\ WarnIfNotEncrypted
                  THEN [welcomed EXCEPT ![id] =
                           Append(@, newMOTDMessage(UnencryptedWarning, TRUE))]
                  ELSE welcomed
    IN  [left EXCEPT
            !.clients[id] = name,
            !.channels = channels,
            !.maxChannels = IF ~existing /\ Cardinality(DOMAIN channels) > @
                            THEN Cardinality(DOMAIN channels) ELSE @,
            !.numUnencryptedChannels =
                IF ~existing /\ ~chEncrypted THEN @ + 1 ELSE @,
            !.numUnencryptedClients = IF ~chEncrypted THEN @ + 1 ELSE @,
            !.send = warned,
            !.err = ""]

\* NVRD.LeaveChannel
LeaveChannel(nv, id, reason) == leaveChannel(nv, id, reason)

\* NVRD.Send: the message goes to every other member of the sender's channel
Relay(nv, id, msg) ==
    IF id \notin DOMAIN nv.clients THEN failed(nv, "Client not found")
    ELSE IF nv.clients[id] = NoChannel THEN failed(nv, "Client not in a channel")
    ELSE [nv EXCEPT
            !.send = broadcastTo(@, nv.channels[nv.clients[id]],
                                 withOrigin(msg, id), {id}),
            !.err = ""]

\* NVRD.Kick: an error of leaveChannel is logged, not returned
Kick(nv, id, reason) ==
    IF id \notin DOMAIN nv.clients THEN failed(nv, "Client not found")
    ELSE LET left == IF nv.clients[id] # NoChannel
                     THEN leaveChannel(nv, id, reason)
                     ELSE nv
         IN  [left EXCEPT
                !.closed = @ \cup {id},
                !.clients = [c \in DOMAIN @ \ {id} |-> @[c]],
                !.err = ""]

NoCall == [op |-> "", id |-> 0, name |-> ""]

\* the state Server.Serve starts from, whatever the configuration
Started ==
    /\ nextID = 0
    /\ reads = 0
    /\ connBroken = [c \in Clients |-> FALSE]
    /\ rdPc = [c \in Clients |-> "off"]
    /\ hdPc = [c \in Clients |-> "off"]
    /\ hdReq = [c \in Clients |-> NoReq]
    /\ hdRes = [c \in Clients |-> NoRes]
    /\ supPc = [c \in Clients |-> "off"]
    /\ clChannel = [c \in Clients |-> NoChannel]
    /\ stopped = [c \in Clients |-> FALSE]
    /\ stopReason = [c \in Clients |-> ""]
    /\ events = [c \in Clients |-> <<>>]
    /\ eventsClosed = [c \in Clients |-> FALSE]
    /\ sent = [c \in Clients |-> <<>>]
    /\ regClients = [c \in {} |-> ZeroMember]
    /\ regChannels = {}
    /\ numE2eChannels = 0
    /\ maxChannels = 0
    /\ maxClients = 0
    /\ maxChannelsTime = 0
    /\ maxClientsTime = 0
    /\ chMembers = [n \in ChannelNames |-> EmptySlice]
    /\ chPending = [n \in ChannelNames |-> 0]
    /\ chPc = [n \in ChannelNames |-> "none"]
    /\ chIdx = [n \in ChannelNames |-> 0]
    /\ chEv = [n \in ChannelNames |-> NoEvent]
    /\ chReq = [n \in ChannelNames |-> ZeroMember]
    /\ ticks = 0
    /\ pingPc = "idle"
    /\ pingTodo = {}
    /\ crashed = FALSE
    /\ nvrd = New
    /\ nvCall = NoCall
    /\ nvOps = 0

\* a server with no stats password configured
Init ==
    Started /\ statsPassword = "" /\ pingsUntilTimeout = 0 /\ MOTD = ""
        /\ traffic = MaxReads

(***************************************************************************)
(* Per-client helpers.  A client's stop flag, stop reason and the          *)
(* responses written to its connection are threaded through the handlers   *)
(* as one record, so that a handler's calls compose in program order.      *)
(***************************************************************************)
St(c) ==
    [stopped |-> stopped[c], stopReason |-> stopReason[c], sent |-> sent[c],
     broken |-> connBroken[c]]

Commit(c, s) ==
    /\ stopped' = [stopped EXCEPT ![c] = s.stopped]
    /\ stopReason' = [stopReason EXCEPT ![c] = s.stopReason]
    /\ sent' = [sent EXCEPT ![c] = s.sent]
    /\ connBroken' = [connBroken EXCEPT ![c] = s.broken]

stop_ignored(s, reason) == s

\* client.stop
stop(s, reason) == [s EXCEPT !.stopped = TRUE, !.stopReason = reason]

send_front(s, resp, fail) ==
    IF s.broken \/ fail
    THEN [s EXCEPT !.stopped = TRUE, !.stopReason = "Send error", !.broken = TRUE]
    ELSE [s EXCEPT !.sent = <<resp>> \o @]

\* client.send: c.encoder.Encode(resp) fails when the connection is gone, or
\* goes with this very write (fail); otherwise the response is on the wire
send(s, resp, fail) ==
    IF s.broken \/ fail
    THEN [stop(s, "Send error") EXCEPT !.broken = TRUE]
    ELSE [s EXCEPT !.sent = Append(@, resp)]

\* client.sendError
sendError(s, reason, fail) == send(s, ClientErrorResponse(reason), fail)

\* client.sendInternalError
sendInternalError(s, fail) == sendError(s, "internal error", fail)

isE2e_prefixOnly(name) ==
    /\ Len(name) >= Len("E2E_")
    /\ SubSeq(name, 1, Len("E2E_")) = "E2E_"

\* channel.isE2e
isE2e(name) ==
    /\ Len(name) >= Len("E2E_")
    /\ SubSeq(name, 1, Len("E2E_")) = "E2E_"
    /\ Len(name) = E2eNameLen

(***************************************************************************)
(* Listener.                                                               *)
(***************************************************************************)
\* the connections that are open
Live == {c \in Clients : rdPc[c] # "off" /\ supPc[c] # "closed"}

\* Server.acceptClients / Server.serveClient: a connection gets the next id
\* and its reader, handler and supervisor goroutines are started
\* (at most maxLive connections are open at a time)
accept(maxLive) ==
    /\ ~crashed
    /\ nextID < MaxClients
    /\ Cardinality(Live) < maxLive
    /\ nextID' = nextID + 1
    /\ rdPc' = [rdPc EXCEPT ![nextID] = "read"]
    /\ hdPc' = [hdPc EXCEPT ![nextID] = IF MOTD # "" THEN "motd" ELSE "select"]
    /\ supPc' = [supPc EXCEPT ![nextID] = "wait"]
    /\ UNCHANGED <<reads, connBroken, hdReq, hdRes, clChannel, stopped,
                   stopReason, events, eventsClosed, sent>>
    /\ UNCHANGED <<registryVars, channelVars, serverVars>>

acceptClients == accept(MaxLive)

(***************************************************************************)
(* Server.readFromClient.                                                  *)
(***************************************************************************)
LoopTest_ignored(isStopped) == "read"

\* the loop condition for !c.isStopped(), evaluated when the reader comes
\* back from <-c.readNext or from a read that timed out: the next position of
\* the reader (leaving the loop runs the deferred close(c.recv), finished <-)
LoopTest(isStopped) == IF isStopped THEN "done" ELSE "read"

\* the reader's position after `c.recv <- msg` while the handler is still
\* inside the message's handler function: <-c.readNext
AwaitReadNext_skipped == "read"

AwaitReadNext == "waitNext"

\* unmarshalClientMessage returns the message m and the reader hands it to
\* the handler on c.recv (the handler is in its select whenever the reader
\* is reading); the reader then waits on c.readNext
recv(c, m) ==
    /\ hdPc[c] = "select"
    /\ rdPc[c] = "read"
    /\ ~connBroken[c]
    /\ reads < traffic
    /\ reads' = reads + 1

\* err == io.EOF (the peer has closed its end): c.stop("Client disconnected");
\* return
readFromClient_eof(c) ==
    /\ ~crashed
    /\ rdPc[c] = "read"
    /\ rdPc' = [rdPc EXCEPT ![c] = "done"]
    /\ Commit(c, stop(St(c), "Client disconnected"))
    /\ UNCHANGED <<nextID, reads, hdPc, hdReq, hdRes, supPc,
                   clChannel, events, eventsClosed>>
    /\ UNCHANGED <<registryVars, channelVars, serverVars>>

\* the read deadline passes: with PingsUntilTimeout = 0 the loop continues
\* (and tests isStopped again), otherwise c.stop("Client timed out"); return
readFromClient_timeout(c) ==
    /\ ~crashed
    /\ rdPc[c] = "read"
    /\ IF pingsUntilTimeout = 0
       THEN /\ stopped[c]
            /\ rdPc' = [rdPc EXCEPT ![c] = LoopTest(stopped[c])]
            /\ UNCHANGED <<stopped, stopReason, sent, connBroken>>
       ELSE /\ rdPc' = [rdPc EXCEPT ![c] = "done"]
            /\ Commit(c, stop(St(c), "Client timed out"))
    /\ UNCHANGED <<nextID, reads, hdPc, hdReq, hdRes, supPc,
                   clChannel, events, eventsClosed>>
    /\ UNCHANGED <<registryVars, channelVars, serverVars>>

\* unmarshalClientMessage returns a *json.UnmarshalTypeError (a field of the
\* wrong type): c.sendError("malformed message"); c.stop(...); return
readFromClient_typeError(c, fail) ==
    /\ ~crashed
    /\ rdPc[c] = "read"
    /\ rdPc' = [rdPc EXCEPT ![c] = "done"]
    /\ Commit(c, stop(sendError(St(c), "malformed message", fail),
                      "client sent a malformed request"))
    /\ UNCHANGED <<nextID, reads, hdPc, hdReq, hdRes, supPc,
                   clChannel, events, eventsClosed>>
    /\ UNCHANGED <<registryVars, channelVars, serverVars>>

\* unmarshalClientMessage returns any other error (a *json.SyntaxError for
\* text that is not JSON, a failed read): the error is logged,
\* c.stop("Receive error"); return
readFromClient_otherError(c) ==
    /\ ~crashed
    /\ rdPc[c] = "read"
    /\ rdPc' = [rdPc EXCEPT ![c] = "done"]
    /\ Commit(c, stop(St(c), "Receive error"))
    /\ UNCHANGED <<nextID, reads, hdPc, hdReq, hdRes, supPc,
                   clChannel, events, eventsClosed>>
    /\ UNCHANGED <<registryVars, channelVars, serverVars>>

(***************************************************************************)
(* Server.handleClient and the client message handlers.  The handler       *)
(* receives from c.recv (the reader then waits on c.readNext) or from      *)
(* c.events; a handler that returns without blocking hands c.readNext      *)
(* back in the same step.                                                  *)
(***************************************************************************)
\* the handler's first step when srv.MOTD != "": c.send(ClientMOTDResponse{...})
handleClient_motd(c, fail) ==
    /\ ~crashed
    /\ hdPc[c] = "motd"
    /\ hdPc' = [hdPc EXCEPT ![c] = "select"]
    /\ Commit(c, send(St(c), ClientMOTDResponse(MOTD), fail))
    /\ UNCHANGED <<nextID, reads, rdPc, hdReq, hdRes, supPc,
                   clChannel, events, eventsClosed>>
    /\ UNCHANGED <<registryVars, channelVars, serverVars>>

peak_unguarded(count, max) == count

peak_never(count, max) == max

\* if len(reg.clients) > reg.maxClients { reg.maxClients = len(reg.clients) },
\* and the same for the channels: the value of the peak afterwards
peak(count, max) == IF count > max THEN count ELSE max

\* time.Now() in a step of the server: instants are told apart by the number
\* of messages decoded when the step ends
Now == reads'

peakTime_atPeak(count, max, time) == IF count >= max THEN Now ELSE time

\* the timestamp assigned in the same if-block as the peak: time.Now() when
\* the count exceeds the peak, left alone otherwise
peakTime(count, max, time) == IF count > max THEN Now ELSE time

\* joinChannel from reg.lock.Lock() to reg.lock.Unlock(), for the request req
\* of client c
joinChannel_locked(c, req) ==
    LET name == req.channel
        member == channelMember(c, req.connectionType)
        clients1 == [i \in (DOMAIN regClients) \cup {c} |->
                        IF i = c THEN member ELSE regClients[i]]
        ok == name \in regChannels
        channels1 == regChannels \cup {name}
    IN  /\ regClients' = clients1
        /\ maxClients' = peak(Cardinality(DOMAIN clients1), maxClients)
        /\ maxClientsTime' = peakTime(Cardinality(DOMAIN clients1), maxClients,
                                      maxClientsTime)
        /\ regChannels' = channels1
        /\ IF ~ok
           THEN /\ chMembers' = [chMembers EXCEPT ![name] = EmptySlice]
                /\ chPc' = [chPc EXCEPT ![name] = "idle"]
                /\ numE2eChannels' = IF isE2e(name) THEN numE2eChannels + 1
                                     ELSE numE2eChannels
                /\ maxChannels' = peak(Cardinality(channels1), maxChannels)
                /\ maxChannelsTime' = peakTime(Cardinality(channels1), maxChannels,
                                               maxChannelsTime)
                /\ chPending' = [chPending EXCEPT ![name] = 1]
           ELSE /\ chPending' = [chPending EXCEPT ![name] = @ + 1]
                /\ UNCHANGED <<chMembers, chPc, numE2eChannels, maxChannels,
                               maxChannelsTime>>

hasChannel_dropped(c) == FALSE

\* c.channel != nil
hasChannel(c) == clChannel[c] # NoChannel

\* handleClientJoin up to joinChannel's send on c.joins.  reg.lock.Lock() is
\* taken at once when the lock is free; while Server.Serve holds the read lock
\* the handler waits for it (joinChannel below).
handleClientJoin(c, m, fail) ==
    /\ ~crashed
    /\ recv(c, m)
    /\ m.name = "join"
    /\ hdReq' = [hdReq EXCEPT ![c] = m]
    /\ IF m.channel = ""
       THEN /\ Commit(c, stop(sendError(St(c), "no channel specified", fail), "protocol error"))
            /\ rdPc' = [rdPc EXCEPT ![c] = LoopTest(stopped'[c])]
            /\ UNCHANGED <<hdPc, registryVars, chMembers, chPc, chPending>>
       ELSE IF m.connectionType = ""
       THEN /\ Commit(c, stop(sendError(St(c), "no connection_type specified", fail),
                              "protocol error"))
            /\ rdPc' = [rdPc EXCEPT ![c] = LoopTest(stopped'[c])]
            /\ UNCHANGED <<hdPc, registryVars, chMembers, chPc, chPending>>
       ELSE IF hasChannel(c)
       THEN /\ Commit(c, stop(sendError(St(c), "already in a channel", fail), "protocol error"))
            /\ rdPc' = [rdPc EXCEPT ![c] = LoopTest(stopped'[c])]
            /\ UNCHANGED <<hdPc, registryVars, chMembers, chPc, chPending>>
       ELSE /\ rdPc' = [rdPc EXCEPT ![c] = AwaitReadNext]
            /\ UNCHANGED <<stopped, stopReason, sent, connBroken>>
            /\ IF pingPc = "idle"
               THEN /\ hdPc' = [hdPc EXCEPT ![c] = "joinSend"]
                    /\ joinChannel_locked(c, m)
               ELSE /\ hdPc' = [hdPc EXCEPT ![c] = "joinLock"]
                    /\ UNCHANGED <<registryVars, chMembers, chPc, chPending>>
    /\ UNCHANGED <<nextID, hdRes, supPc, clChannel,
                   events, eventsClosed>>
    /\ UNCHANGED <<chIdx, chEv, chReq, serverVars>>

\* joinChannel: reg.lock.Lock() returns once Server.Serve has released the
\* read lock
joinChannel(c) ==
    /\ ~crashed
    /\ hdPc[c] = "joinLock"
    /\ pingPc = "idle"
    /\ hdPc' = [hdPc EXCEPT ![c] = "joinSend"]
    /\ UNCHANGED <<nextID, reads, connBroken, rdPc, hdReq, hdRes, supPc,
                   clChannel, stopped, stopReason, events, eventsClosed, sent>>
    /\ joinChannel_locked(c, hdReq[c])
    /\ UNCHANGED <<chIdx, chEv, chReq, serverVars>>

\* handleClientChannelMessage up to the send on c.channel.messages
handleClientChannelMessage(c, m, fail) ==
    /\ ~crashed
    /\ recv(c, m)
    /\ m.name = "channel_message"
    /\ hdReq' = [hdReq EXCEPT ![c] = m]
    /\ IF clChannel[c] = NoChannel
       THEN /\ Commit(c, stop(sendError(St(c), "not in a channel", fail), "protocol error"))
            /\ rdPc' = [rdPc EXCEPT ![c] = LoopTest(stopped'[c])]
            /\ UNCHANGED hdPc
       ELSE /\ rdPc' = [rdPc EXCEPT ![c] = AwaitReadNext]
            /\ hdPc' = [hdPc EXCEPT ![c] = "msgSend"]
            /\ UNCHANGED <<stopped, stopReason, sent, connBroken>>
    /\ UNCHANGED <<nextID, hdRes, supPc, clChannel,
                   events, eventsClosed>>
    /\ UNCHANGED <<registryVars, channelVars, serverVars>>

\* handleClientProtocolVersion
handleClientProtocolVersion(c, m, fail) ==
    /\ ~crashed
    /\ recv(c, m)
    /\ m.name = "protocol_version"
    /\ hdReq' = [hdReq EXCEPT ![c] = m]
    /\ IF m.version # 2
       THEN Commit(c, stop(sendError(St(c), "version unsupported", fail),
                           "protocol version unsupported"))
       ELSE UNCHANGED <<stopped, stopReason, sent, connBroken>>
    /\ rdPc' = [rdPc EXCEPT ![c] = LoopTest(stopped'[c])]
    /\ UNCHANGED <<nextID, hdPc, hdRes, supPc, clChannel, events, eventsClosed>>
    /\ UNCHANGED <<registryVars, channelVars, serverVars>>

\* registry.Stats (the counters; the times are left out)
Stats ==
    [num_channels |-> Cardinality(regChannels),
     num_e2e_channels |-> numE2eChannels,
     max_channels |-> maxChannels,
     num_clients |-> Cardinality(DOMAIN regClients),
     max_clients |-> maxClients]

noPassword_dropped(password) == FALSE

\* statReq.Password == ""
noPassword(password) == password = ""

\* handleClientStatMessage.  With a wrong password the handler first sleeps
\* five seconds (time.Sleep): the step ends there, with the reader waiting on
\* c.readNext.
handleClientStatMessage(c, m, fail) ==
    /\ ~crashed
    /\ recv(c, m)
    /\ m.name = "stat"
    /\ hdReq' = [hdReq EXCEPT ![c] = m]
    /\ IF clChannel[c] = NoChannel /\ ~noPassword(m.password) /\ statsPassword # m.password
       THEN /\ hdPc' = [hdPc EXCEPT ![c] = "penalty"]
            /\ rdPc' = [rdPc EXCEPT ![c] = AwaitReadNext]
            /\ UNCHANGED <<stopped, stopReason, sent, connBroken>>
       ELSE /\ IF clChannel[c] # NoChannel
               THEN Commit(c, stop(sendError(St(c), "no stats while in channel", fail),
                                   "protocol error"))
               ELSE IF noPassword(m.password)
               THEN Commit(c, stop(sendError(St(c), "no password", fail),
                                   "no stats password provided"))
               ELSE Commit(c, stop(send(St(c), ClientStatsResponse(Stats), fail),
                                   "stats request completed"))
            /\ rdPc' = [rdPc EXCEPT ![c] = LoopTest(stopped'[c])]
            /\ UNCHANGED hdPc
    /\ UNCHANGED <<nextID, hdRes, supPc, clChannel, events, eventsClosed>>
    /\ UNCHANGED <<registryVars, channelVars, serverVars>>

\* handleClientStatMessage once time.Sleep has returned:
\* c.sendError("wrong password"); c.stop("wrong stats password"); return, and
\* handleClient signals c.readNext
handleClientStatMessage_penalty(c, fail) ==
    /\ ~crashed
    /\ hdPc[c] = "penalty"
    /\ Commit(c, stop(sendError(St(c), "wrong password", fail), "wrong stats password"))
    /\ hdPc' = [hdPc EXCEPT ![c] = "select"]
    /\ rdPc' = [rdPc EXCEPT ![c] = LoopTest(stopped'[c])]
    /\ UNCHANGED <<nextID, reads, hdReq, hdRes, supPc, clChannel, events, eventsClosed>>
    /\ UNCHANGED <<registryVars, channelVars, serverVars>>

(***************************************************************************)
(* channel.start: the channel task.  Each range loop over c.members is one *)
(* action per iteration, because member.events <- msg blocks while the     *)
(* member's inbox is full; what follows the loop without blocking belongs  *)
(* to the step of the last iteration (or to the step that starts the loop  *)
(* when there is nobody to tell).                                          *)
(***************************************************************************)
\* the roster a joiner holds once append has moved the member list to a new
\* backing array: the old array is never written again
Detach(res, old) ==
    [res EXCEPT !.shared = FALSE, !.data = SubSeq(old.arr, 1, res.len)]

join_append_keepPending(n, member, res) ==
    /\ chMembers' = [chMembers EXCEPT ![n] = GoAppend(@, member)]
    /\ hdRes' = [c \in Clients |->
                    IF /\ hdPc[c] = "joinCopy"
                       /\ hdReq[c].channel = n
                       /\ res[c].shared
                       /\ AppendReallocates(chMembers[n])
                    THEN Detach(res[c], chMembers[n])
                    ELSE res[c]]
    /\ UNCHANGED chPending
    /\ chPc' = [chPc EXCEPT ![n] = "idle"]
    /\ chIdx' = [chIdx EXCEPT ![n] = 0]
    /\ chEv' = [chEv EXCEPT ![n] = NoEvent]
    /\ chReq' = [chReq EXCEPT ![n] = ZeroMember]

\* join case after the broadcast: c.members = append(c.members, req.member);
\* c.pendingJoins--; back to the select
join_append(n, member, res) ==
    /\ chMembers' = [chMembers EXCEPT ![n] = GoAppend(@, member)]
    /\ hdRes' = [c \in Clients |->
                    IF /\ hdPc[c] = "joinCopy"
                       /\ hdReq[c].channel = n
                       /\ res[c].shared
                       /\ AppendReallocates(chMembers[n])
                    THEN Detach(res[c], chMembers[n])
                    ELSE res[c]]
    /\ chPending' = [chPending EXCEPT ![n] = @ - 1]
    /\ chPc' = [chPc EXCEPT ![n] = "idle"]
    /\ chIdx' = [chIdx EXCEPT ![n] = 0]
    /\ chEv' = [chEv EXCEPT ![n] = NoEvent]
    /\ chReq' = [chReq EXCEPT ![n] = ZeroMember]

deliver_dropped(n) == UNCHANGED <<events, crashed>>

\* member.events <- msg for the member at the loop's position: blocks while
\* the inbox is full, panics once the inbox is closed
deliver(n) ==
    LET id == chMembers[n].arr[chIdx[n]].id
    IN  IF eventsClosed[id]
        THEN /\ crashed' = TRUE
             /\ UNCHANGED events
        ELSE /\ Len(events[id]) < EventsCap
             /\ events' = [events EXCEPT ![id] = Append(@, chEv[n])]
             /\ UNCHANGED crashed

LastIteration(n) == chIdx[n] = chMembers[n].len

\* case req := <-c.joins, up to and including the reply on req.resp.  The
\* reply carries the slice c.members itself: the joiner's roster shares the
\* backing array of the member list.
start_join(n, c) ==
    LET member == channelMember(c, hdReq[c].connectionType)
        exists == IndexOf(chMembers[n], c) # 0
        roster == [ok |-> TRUE, shared |-> TRUE, data |-> <<>>,
                   len |-> chMembers[n].len, atJoin |-> SliceElems(chMembers[n])]
    IN  /\ ~crashed
        /\ chPc[n] = "idle"
        /\ hdPc[c] = "joinSend"
        /\ hdReq[c].channel = n
        /\ hdPc' = [hdPc EXCEPT ![c] = "joinCopy"]
        /\ IF exists
           THEN /\ hdRes' = [hdRes EXCEPT ![c] = NoRes]
                /\ chPending' = [chPending EXCEPT ![n] = @ - 1]
                /\ UNCHANGED <<chMembers, chPc, chIdx, chEv, chReq>>
           ELSE IF chMembers[n].len = 0
           THEN join_append(n, member, [hdRes EXCEPT ![c] = roster])
           ELSE /\ hdRes' = [hdRes EXCEPT ![c] = roster]
                /\ chPc' = [chPc EXCEPT ![n] = "joinBcast"]
                /\ chIdx' = [chIdx EXCEPT ![n] = 1]
                /\ chEv' = [chEv EXCEPT ![n] = joinedChannelMSG(member)]
                /\ chReq' = [chReq EXCEPT ![n] = member]
                /\ UNCHANGED <<chMembers, chPending>>
        /\ UNCHANGED <<nextID, reads, connBroken, rdPc, hdReq, supPc, clChannel,
                       stopped, stopReason, events, eventsClosed, sent>>
        /\ UNCHANGED <<registryVars, serverVars>>

\* c.broadcast(joinedChannelMSG(req.member)), one member
start_join_broadcast(n) ==
    /\ ~crashed
    /\ chPc[n] = "joinBcast"
    /\ deliver(n)
    /\ IF LastIteration(n) /\ ~crashed'
       THEN join_append(n, chReq[n], hdRes)
       ELSE /\ chIdx' = [chIdx EXCEPT ![n] = @ + 1]
            /\ UNCHANGED <<chMembers, hdRes, chPending, chPc, chEv, chReq>>
    /\ UNCHANGED <<nextID, reads, connBroken, rdPc, hdPc, hdReq, supPc,
                   clChannel, stopped, stopReason, eventsClosed, sent>>
    /\ UNCHANGED <<registryVars, ticks, pingPc, pingTodo, configVars, nvrdVars>>

\* case msg := <-c.messages: rendezvous with the sender's handler, which then
\* returns and hands c.readNext to its reader
start_messages(n, c) ==
    /\ ~crashed
    /\ chPc[n] = "idle"
    /\ hdPc[c] = "msgSend"
    /\ clChannel[c] = n
    /\ rdPc[c] = "waitNext"
    /\ IF chMembers[n].len = 0
       THEN UNCHANGED <<chPc, chIdx, chEv>>
       ELSE /\ chPc' = [chPc EXCEPT ![n] = "msgBcast"]
            /\ chIdx' = [chIdx EXCEPT ![n] = 1]
            /\ chEv' = [chEv EXCEPT ![n] = channelMessage(c, hdReq[c].msg)]
    /\ hdPc' = [hdPc EXCEPT ![c] = "select"]
    /\ hdReq' = [hdReq EXCEPT ![c] = NoReq]
    /\ rdPc' = [rdPc EXCEPT ![c] = LoopTest(stopped[c])]
    /\ UNCHANGED <<nextID, reads, connBroken, hdRes, supPc, clChannel,
                   stopped, stopReason, events, eventsClosed, sent>>
    /\ UNCHANGED <<chMembers, chPending, chReq, registryVars, serverVars>>

notOrigin_dropped(n) == TRUE

\* msg.origin != member.id, for the member at the loop's position
notOrigin(n) == chEv[n].origin # chMembers[n].arr[chIdx[n]].id

\* messages case, one member: if msg.origin != member.id { member.events <- msg }
start_messages_relay(n) ==
    /\ ~crashed
    /\ chPc[n] = "msgBcast"
    /\ IF notOrigin(n)
       THEN deliver(n)
       ELSE UNCHANGED <<events, crashed>>
    /\ IF LastIteration(n) /\ ~crashed'
       THEN /\ chPc' = [chPc EXCEPT ![n] = "idle"]
            /\ chIdx' = [chIdx EXCEPT ![n] = 0]
            /\ chEv' = [chEv EXCEPT ![n] = NoEvent]
       ELSE /\ chIdx' = [chIdx EXCEPT ![n] = @ + 1]
            /\ UNCHANGED <<chPc, chEv>>
    /\ UNCHANGED <<nextID, reads, connBroken, rdPc, hdPc, hdReq, hdRes, supPc,
                   clChannel, stopped, stopReason, eventsClosed, sent>>
    /\ UNCHANGED <<chMembers, chPending, chReq>>
    /\ UNCHANGED <<registryVars, ticks, pingPc, pingTodo, configVars, nvrdVars>>

\* parts case: req.resp <- struct{}{} releases the leaver's supervisor, and
\* the task goes on to reg.lock.Lock()
parts_reply(n, id) ==
    /\ supPc' = [supPc EXCEPT ![id] = "close"]
    /\ chPc' = [chPc EXCEPT ![n] = "partLock"]
    /\ chIdx' = [chIdx EXCEPT ![n] = 0]
    /\ chEv' = [chEv EXCEPT ![n] = NoEvent]

\* case req := <-c.parts (channel.leave's send): the matching member is cut out
\* of the member list inside its backing array, and the remaining members are
\* to be told
start_parts(n, c) ==
    LET i == IndexOf(chMembers[n], c)
    IN  /\ ~crashed
        /\ chPc[n] = "idle"
        /\ supPc[c] = "leaveSend"
        /\ clChannel[c] = n
        /\ chReq' = [chReq EXCEPT ![n] = channelMember(c, "")]
        /\ chMembers' = [chMembers EXCEPT ![n] = IF i # 0 THEN GoRemoveAt(@, i) ELSE @]
        /\ IF i # 0 /\ chMembers[n].len > 1
           THEN /\ supPc' = [supPc EXCEPT ![c] = "leaveWait"]
                /\ chPc' = [chPc EXCEPT ![n] = "partBcast"]
                /\ chEv' = [chEv EXCEPT ![n] = leftChannelMSG(chMembers[n].arr[i])]
                /\ chIdx' = [chIdx EXCEPT ![n] = 1]
           ELSE parts_reply(n, c)
        /\ UNCHANGED <<nextID, reads, connBroken, rdPc, hdPc, hdReq, hdRes,
                       clChannel, stopped, stopReason, events, eventsClosed, sent>>
        /\ UNCHANGED <<chPending, registryVars, serverVars>>

\* c.broadcast(leftChannelMSG(member)), one member
start_parts_broadcast(n) ==
    /\ ~crashed
    /\ chPc[n] = "partBcast"
    /\ deliver(n)
    /\ IF LastIteration(n) /\ ~crashed'
       THEN parts_reply(n, chReq[n].id)
       ELSE /\ chIdx' = [chIdx EXCEPT ![n] = @ + 1]
            /\ UNCHANGED <<supPc, chPc, chEv>>
    /\ UNCHANGED <<nextID, reads, connBroken, rdPc, hdPc, hdReq, hdRes,
                   clChannel, stopped, stopReason, eventsClosed, sent>>
    /\ UNCHANGED <<chMembers, chPending, chReq>>
    /\ UNCHANGED <<registryVars, ticks, pingPc, pingTodo, configVars, nvrdVars>>

unused_ignoringJoins(n) == chMembers[n].len = 0

\* len(c.members) == 0 && c.pendingJoins == 0
unused(n) == chMembers[n].len = 0 /\ chPending[n] = 0

\* parts case from reg.lock.Lock() to reg.lock.Unlock(): the leaver is dropped
\* from registry.clients and an empty channel without pending joins removes
\* itself and returns
start_parts_locked(n) ==
    LET destroy == unused(n)
    IN  /\ ~crashed
        /\ chPc[n] = "partLock"
        /\ pingPc = "idle"
        /\ regClients' = [i \in (DOMAIN regClients) \ {chReq[n].id} |-> regClients[i]]
        /\ IF destroy
           THEN /\ regChannels' = regChannels \ {n}
                /\ numE2eChannels' = IF isE2e(n) THEN numE2eChannels - 1
                                     ELSE numE2eChannels
                /\ chPc' = [chPc EXCEPT ![n] = "none"]
                /\ chMembers' = [chMembers EXCEPT ![n] = EmptySlice]
           ELSE /\ chPc' = [chPc EXCEPT ![n] = "idle"]
                /\ UNCHANGED <<regChannels, numE2eChannels, chMembers>>
        /\ chReq' = [chReq EXCEPT ![n] = ZeroMember]
        /\ UNCHANGED <<nextID, reads, clientVars, maxChannels, maxClients,
                       maxChannelsTime, maxClientsTime, serverVars>>
        /\ UNCHANGED <<chPending, chIdx, chEv>>

\* what ranging over the roster yields when the handler copies it
RosterView(c) ==
    IF hdRes[c].shared
    THEN SubSeq(chMembers[hdReq[c].channel].arr, 1, hdRes[c].len)
    ELSE hdRes[c].data

\* handleClientJoin after joinChannel has returned
handleClientJoin_reply(c, fail) ==
    /\ ~crashed
    /\ hdPc[c] = "joinCopy"
    /\ rdPc[c] = "waitNext"
    /\ IF ~hdRes[c].ok
       THEN /\ Commit(c, stop(sendError(St(c), "already a member", fail), "protocol error"))
            /\ UNCHANGED clChannel
       ELSE /\ Commit(c, send(St(c),
                    ClientChannelJoinedResponse(RosterView(c), hdReq[c].channel, c), fail))
            /\ clChannel' = [clChannel EXCEPT ![c] = hdReq[c].channel]
    /\ hdPc' = [hdPc EXCEPT ![c] = "select"]
    /\ hdReq' = [hdReq EXCEPT ![c] = NoReq]
    /\ hdRes' = [hdRes EXCEPT ![c] = [@ EXCEPT !.shared = FALSE, !.data = <<>>, !.len = 0]]
    /\ rdPc' = [rdPc EXCEPT ![c] = LoopTest(stopped'[c])]
    /\ UNCHANGED <<nextID, reads, supPc, events, eventsClosed>>
    /\ UNCHANGED <<registryVars, channelVars, serverVars>>

(***************************************************************************)
(* handleClient: events, and the end of the handler.                       *)
(***************************************************************************)
\* handleClientChannelEvent, handleClientJoinEvent, handleClientLeaveEvent
EventResponse(ev) ==
    IF ev.name = "channel_message" THEN ClientResponse(ev.msg, ev.origin)
    ELSE IF ev.name = "joined_channel" THEN ClientClientJoinedResponse(ev.member)
    ELSE ClientClientLeftResponse(ev.member)

\* the names registered in clientEventHandlers
clientEventHandlers == {"channel_message", "joined_channel", "left_channel"}

\* case msg := <-c.events
handleClient_events(c, fail) ==
    LET ev == Head(events[c])
    IN  /\ ~crashed
        /\ hdPc[c] = "select"
        /\ events[c] # <<>>
        /\ events' = [events EXCEPT ![c] = Tail(@)]
        /\ IF ev.name \in clientEventHandlers
           THEN Commit(c, send(St(c), EventResponse(ev), fail))
           ELSE Commit(c, stop(sendInternalError(St(c), fail), "internal error"))
        /\ UNCHANGED <<nextID, reads, rdPc, hdPc, hdReq, hdRes,
                       supPc, clChannel, eventsClosed>>
        /\ UNCHANGED <<registryVars, channelVars, serverVars>>

mustLeave_never(c) == FALSE

\* the supervisor's test before c.channel.leave(c.id): c.channel != nil
mustLeave(c) == clChannel[c] # NoChannel

\* case msg, ok := <-c.recv with !ok: the reader has closed c.recv and the
\* handler returns.  Both goroutines are then finished, and the supervisor of
\* serveClient goes on to c.channel.leave(c.id) if the client is in a channel.
handleClient_return(c) ==
    /\ ~crashed
    /\ hdPc[c] = "select"
    /\ rdPc[c] = "done"
    /\ hdPc' = [hdPc EXCEPT ![c] = "done"]
    /\ supPc' = [supPc EXCEPT ![c] = IF mustLeave(c) THEN "leaveSend" ELSE "close"]
    /\ UNCHANGED <<nextID, reads, connBroken, rdPc, hdReq, hdRes,
                   clChannel, stopped, stopReason, events, eventsClosed, sent>>
    /\ UNCHANGED <<registryVars, channelVars, serverVars>>

(***************************************************************************)
(* The supervisor goroutine of serveClient.                                *)
(***************************************************************************)
\* close(c.events); for range c.events {}; conn.Close().  The transcript of
\* the connection ends here.
serveClient_close(c) ==
    /\ ~crashed
    /\ supPc[c] = "close"
    /\ supPc' = [supPc EXCEPT ![c] = "closed"]
    /\ eventsClosed' = [eventsClosed EXCEPT ![c] = TRUE]
    /\ events' = [events EXCEPT ![c] = <<>>]
    /\ UNCHANGED <<nextID, reads, connBroken, rdPc, hdPc, hdReq,
                   clChannel, stopped, stopReason>>
    /\ sent' = [sent EXCEPT ![c] = <<>>]
    /\ hdRes' = [hdRes EXCEPT ![c] = NoRes]
    /\ UNCHANGED <<registryVars, channelVars, serverVars>>

(***************************************************************************)
(* Server.Serve: the ping ticker.  With TimeBetweenPings = 0 the ticker    *)
(* never fires.                                                            *)
(***************************************************************************)
\* case <-pingsCH: srv.registry.lock.RLock()
Serve_tick ==
    /\ ~crashed
    /\ pingPc = "idle"
    /\ ticks < MaxTicks
    /\ ticks' = ticks + 1
    /\ pingPc' = "loop"
    /\ pingTodo' = DOMAIN regClients
    /\ UNCHANGED <<nextID, reads, clientVars, registryVars, channelVars, crashed,
                   configVars, nvrdVars>>

\* member.events <- pingMSG for one entry of registry.clients
Serve_ping(c) ==
    /\ ~crashed
    /\ pingPc = "loop"
    /\ c \in pingTodo
    /\ pingTodo' = pingTodo \ {c}
    /\ IF eventsClosed[c]
       THEN /\ crashed' = TRUE
            /\ UNCHANGED events
       ELSE /\ Len(events[c]) < EventsCap
            /\ events' = [events EXCEPT ![c] = Append(@, pingMessage)]
            /\ UNCHANGED crashed
    /\ UNCHANGED <<nextID, reads, connBroken, rdPc, hdPc, hdReq, hdRes, supPc,
                   clChannel, stopped, stopReason, eventsClosed, sent>>
    /\ UNCHANGED <<registryVars, channelVars, ticks, pingPc, configVars, nvrdVars>>

\* srv.registry.lock.RUnlock()
Serve_unlock ==
    /\ ~crashed
    /\ pingPc = "loop"
    /\ pingTodo = {}
    /\ pingPc' = "idle"
    /\ UNCHANGED <<nextID, reads, clientVars, registryVars, channelVars,
                   ticks, pingTodo, crashed, configVars, nvrdVars>>

(***************************************************************************)
(* The server.                                                             *)
(***************************************************************************)
Next ==
    \/ acceptClients
    \/ \E c \in Clients : readFromClient_eof(c)
    \/ \E c \in Clients : readFromClient_timeout(c)
    \/ \E c \in Clients, m \in ClientInputs, fail \in BOOLEAN : handleClientJoin(c, m, fail)
    \/ \E c \in Clients, fail \in BOOLEAN : handleClientJoin_reply(c, fail)
    \/ \E c \in Clients, m \in ClientInputs, fail \in BOOLEAN :
            handleClientChannelMessage(c, m, fail)
    \/ \E c \in Clients, fail \in BOOLEAN : handleClient_events(c, fail)
    \/ \E c \in Clients : handleClient_return(c)
    \/ \E c \in Clients : serveClient_close(c)
    \/ \E n \in ChannelNames, c \in Clients : start_join(n, c)
    \/ \E n \in ChannelNames : start_join_broadcast(n)
    \/ \E n \in ChannelNames, c \in Clients : start_messages(n, c)
    \/ \E n \in ChannelNames : start_messages_relay(n)
    \/ \E n \in ChannelNames, c \in Clients : start_parts(n, c)
    \/ \E n \in ChannelNames : start_parts_broadcast(n)
    \/ \E n \in ChannelNames : start_parts_locked(n)

\* the server configured with TimeBetweenPings = 0: the ticker never fires and
\* the registry lock is never held across a blocking operation
Spec == Init /\ [][Next]_vars

\* the number of connections the pinging server is checked with
PingClients == 2

\* the messages of sessions that only join
JoinInputs == {m \in ClientInputs : m.name = "join"}

\* the server configured with TimeBetweenPings > 0, serving sessions that
\* join channels and disconnect
NextPings ==
    \/ nextID < PingClients /\ acceptClients
    \/ \E c \in Clients : readFromClient_eof(c)
    \/ \E c \in Clients : readFromClient_timeout(c)
    \/ \E c \in Clients, m \in JoinInputs, fail \in BOOLEAN : handleClientJoin(c, m, fail)
    \/ \E c \in Clients : joinChannel(c)
    \/ \E c \in Clients, fail \in BOOLEAN : handleClientJoin_reply(c, fail)
    \/ \E c \in Clients, fail \in BOOLEAN : handleClient_events(c, fail)
    \/ \E c \in Clients : handleClient_return(c)
    \/ \E c \in Clients : serveClient_close(c)
    \/ \E n \in ChannelNames, c \in Clients : start_join(n, c)
    \/ \E n \in ChannelNames : start_join_broadcast(n)
    \/ \E n \in ChannelNames, c \in Clients : start_parts(n, c)
    \/ \E n \in ChannelNames : start_parts_broadcast(n)
    \/ \E n \in ChannelNames : start_parts_locked(n)
    \/ Serve_tick
    \/ \E c \in Clients : Serve_ping(c)
    \/ Serve_unlock

SpecPings == Init /\ [][NextPings]_vars

(***************************************************************************)
(* Scheduling.  Every goroutine that can take a step eventually takes one: *)
(* the channel tasks, the handlers, the supervisors, the readers' deadline *)
(* and the ticker's loop.  What the peers send, and when they connect or   *)
(* disconnect, is not subject to fairness.                                 *)
(***************************************************************************)
ChannelTask(n) ==
    \/ \E c \in Clients : start_join(n, c)
    \/ start_join_broadcast(n)
    \/ \E c \in Clients : start_messages(n, c)
    \/ start_messages_relay(n)
    \/ \E c \in Clients : start_parts(n, c)
    \/ start_parts_broadcast(n)
    \/ start_parts_locked(n)

Handler(c) ==
    \/ \E fail \in BOOLEAN : handleClient_motd(c, fail)
    \/ joinChannel(c)
    \/ \E fail \in BOOLEAN : handleClientJoin_reply(c, fail)
    \/ \E fail \in BOOLEAN : handleClient_events(c, fail)
    \/ handleClient_return(c)

Ticker == (\E c \in Clients : Serve_ping(c)) \/ Serve_unlock

Fairness ==
    /\ \A n \in ChannelNames : WF_vars(ChannelTask(n))
    /\ \A c \in Clients : WF_vars(Handler(c))
    /\ \A c \in Clients : WF_vars(serveClient_close(c))
    /\ \A c \in Clients : WF_vars(readFromClient_timeout(c))
    /\ WF_vars(Ticker)

LiveSpec == Spec /\ Fairness

LivePings == SpecPings /\ Fairness

(***************************************************************************)
(* The server with every verb of the protocol: sessions send join,         *)
(* protocol_version, stat and pong, and the stats password is configured   *)
(* or not.  TimeBetweenPings = 0.                                          *)
(***************************************************************************)
\* the number of connections this server is checked with
VerbClients == 2

StatsPasswords == {"", "secret"}
Versions == {2, 3}

\* join messages whose channel or connection_type is missing or empty
InvalidJoins ==
    {ClientJoinMessage(n, t) : n \in ChannelNames \cup {""}, t \in ConnTypes \cup {""}}
        \ {ClientJoinMessage(n, t) : n \in ChannelNames, t \in ConnTypes}

VerbInputs ==
    {ClientJoinMessage(n, t) : n \in ChannelNames, t \in ConnTypes}
        \cup InvalidJoins
        \cup {PongMessage}
        \cup {ClientProtocolVersionMessage(v) : v \in Versions}
        \cup {ClientStatMessage(pw) : pw \in StatsPasswords \cup {"wrong"}}

InitVerbs ==
    Started /\ statsPassword \in StatsPasswords /\ pingsUntilTimeout = 0 /\ MOTD = ""
        /\ traffic = MaxReads

NextVerbs ==
    \/ nextID < VerbClients /\ acceptClients
    \/ \E c \in Clients : readFromClient_eof(c)
    \/ \E c \in Clients : readFromClient_timeout(c)
    \/ \E c \in Clients, fail \in BOOLEAN : readFromClient_typeError(c, fail)
    \/ \E c \in Clients : readFromClient_otherError(c)
    \/ \E c \in Clients, m \in VerbInputs, fail \in BOOLEAN : handleClientJoin(c, m, fail)
    \/ \E c \in Clients, fail \in BOOLEAN : handleClientJoin_reply(c, fail)
    \/ \E c \in Clients, m \in VerbInputs, fail \in BOOLEAN :
            handleClientChannelMessage(c, m, fail)
    \/ \E c \in Clients, m \in VerbInputs, fail \in BOOLEAN :
            handleClientProtocolVersion(c, m, fail)
    \/ \E c \in Clients, m \in VerbInputs, fail \in BOOLEAN :
            handleClientStatMessage(c, m, fail)
    \/ \E c \in Clients, fail \in BOOLEAN : handleClientStatMessage_penalty(c, fail)
    \/ \E c \in Clients, fail \in BOOLEAN : handleClient_events(c, fail)
    \/ \E c \in Clients : handleClient_return(c)
    \/ \E c \in Clients : serveClient_close(c)
    \/ \E n \in ChannelNames, c \in Clients : start_join(n, c)
    \/ \E n \in ChannelNames : start_join_broadcast(n)
    \/ \E n \in ChannelNames, c \in Clients : start_messages(n, c)
    \/ \E n \in ChannelNames : start_messages_relay(n)
    \/ \E n \in ChannelNames, c \in Clients : start_parts(n, c)
    \/ \E n \in ChannelNames : start_parts_broadcast(n)
    \/ \E n \in ChannelNames : start_parts_locked(n)

SpecVerbs == InitVerbs /\ [][NextVerbs]_vars

(***************************************************************************)
(* The server configured with TimeBetweenPings = 0 and any                 *)
(* PingsUntilTimeout, serving sessions that join channels, idle and        *)
(* disconnect.  The ticker never fires.                                    *)
(***************************************************************************)
Timeouts == {0, 2}

InitIdle ==
    Started /\ statsPassword = "" /\ pingsUntilTimeout \in Timeouts /\ MOTD = ""
        /\ traffic = MaxReads

NextIdle ==
    \/ nextID < PingClients /\ acceptClients
    \/ \E c \in Clients : readFromClient_eof(c)
    \/ \E c \in Clients : readFromClient_timeout(c)
    \/ \E c \in Clients, m \in JoinInputs, fail \in BOOLEAN : handleClientJoin(c, m, fail)
    \/ \E c \in Clients, fail \in BOOLEAN : handleClientJoin_reply(c, fail)
    \/ \E c \in Clients, fail \in BOOLEAN : handleClient_events(c, fail)
    \/ \E c \in Clients : handleClient_return(c)
    \/ \E c \in Clients : serveClient_close(c)
    \/ \E n \in ChannelNames, c \in Clients : start_join(n, c)
    \/ \E n \in ChannelNames : start_join_broadcast(n)
    \/ \E n \in ChannelNames, c \in Clients : start_parts(n, c)
    \/ \E n \in ChannelNames : start_parts_broadcast(n)
    \/ \E n \in ChannelNames : start_parts_locked(n)

SpecIdle == InitIdle /\ [][NextIdle]_vars

(***************************************************************************)
(* The server with or without a message of the day, serving sessions that  *)
(* join channels, send malformed objects and disconnect.                   *)
(* TimeBetweenPings = 0.                                                   *)
(***************************************************************************)
MOTDs == {"", "hello"}

InitMOTD ==
    Started /\ statsPassword = "" /\ pingsUntilTimeout = 0 /\ MOTD \in MOTDs
        /\ traffic = MaxReads

NextMOTD ==
    \/ nextID < PingClients /\ acceptClients
    \/ \E c \in Clients : readFromClient_eof(c)
    \/ \E c \in Clients, fail \in BOOLEAN : readFromClient_typeError(c, fail)
    \/ \E c \in Clients, fail \in BOOLEAN : handleClient_motd(c, fail)
    \/ \E c \in Clients, m \in JoinInputs, fail \in BOOLEAN : handleClientJoin(c, m, fail)
    \/ \E c \in Clients, fail \in BOOLEAN : handleClientJoin_reply(c, fail)
    \/ \E c \in Clients, fail \in BOOLEAN : handleClient_events(c, fail)
    \/ \E c \in Clients : handleClient_return(c)
    \/ \E c \in Clients : serveClient_close(c)
    \/ \E n \in ChannelNames, c \in Clients : start_join(n, c)
    \/ \E n \in ChannelNames : start_join_broadcast(n)
    \/ \E n \in ChannelNames, c \in Clients : start_parts(n, c)
    \/ \E n \in ChannelNames : start_parts_broadcast(n)
    \/ \E n \in ChannelNames : start_parts_locked(n)

SpecMOTD == InitMOTD /\ [][NextMOTD]_vars

(***************************************************************************)
(* One channel with up to three members at a time: the sessions only join  *)
(* PlainName and disconnect, so that the loops over the member list run    *)
(* over more than one member.  TimeBetweenPings = 0.                       *)
(***************************************************************************)
\* connections open at the same time
RoomLive == 3

RoomInputs == {ClientJoinMessage(PlainName, t) : t \in ConnTypes}

NextRoom ==
    \/ accept(RoomLive)
    \/ \E c \in Clients : readFromClient_eof(c)
    \/ \E c \in Clients : readFromClient_timeout(c)
    \/ \E c \in Clients, m \in RoomInputs, fail \in BOOLEAN : handleClientJoin(c, m, fail)
    \/ \E c \in Clients, fail \in BOOLEAN : handleClientJoin_reply(c, fail)
    \/ \E c \in Clients, fail \in BOOLEAN : handleClient_events(c, fail)
    \/ \E c \in Clients : handleClient_return(c)
    \/ \E c \in Clients : serveClient_close(c)
    \/ \E c \in Clients : start_join(PlainName, c)
    \/ start_join_broadcast(PlainName)
    \/ \E c \in Clients : start_parts(PlainName, c)
    \/ start_parts_broadcast(PlainName)
    \/ start_parts_locked(PlainName)

SpecRoom == Init /\ [][NextRoom]_vars

(***************************************************************************)
(* Two sessions in one channel whose peers send four messages in all:     *)
(* enough for both to join and for one of them to send two messages.      *)
(***************************************************************************)
FifoClients == 2

FifoReads == 4

\* two objects that differ on the wire: a key press and a speech command
SpeakObject == [type |-> "speak"]

FifoPayloads == {KeyObject, SpeakObject}

FifoInputs ==
    {ClientJoinMessage(PlainName, t) : t \in ConnTypes}
        \cup {RelayMessage(p) : p \in FifoPayloads}

InitFifo ==
    Started /\ statsPassword = "" /\ pingsUntilTimeout = 0 /\ MOTD = ""
        /\ traffic = FifoReads

NextFifo ==
    \/ nextID < FifoClients /\ acceptClients
    \/ \E c \in Clients : readFromClient_eof(c)
    \/ \E c \in Clients : readFromClient_timeout(c)
    \/ \E c \in Clients, m \in FifoInputs, fail \in BOOLEAN : handleClientJoin(c, m, fail)
    \/ \E c \in Clients, fail \in BOOLEAN : handleClientJoin_reply(c, fail)
    \/ \E c \in Clients, m \in FifoInputs, fail \in BOOLEAN :
            handleClientChannelMessage(c, m, fail)
    \/ \E c \in Clients, fail \in BOOLEAN : handleClient_events(c, fail)
    \/ \E c \in Clients : handleClient_return(c)
    \/ \E c \in Clients : serveClient_close(c)
    \/ \E c \in Clients : start_join(PlainName, c)
    \/ start_join_broadcast(PlainName)
    \/ \E c \in Clients : start_messages(PlainName, c)
    \/ start_messages_relay(PlainName)
    \/ \E c \in Clients : start_parts(PlainName, c)
    \/ start_parts_broadcast(PlainName)
    \/ start_parts_locked(PlainName)

SpecFifo == InitFifo /\ [][NextFifo]_vars


(***************************************************************************)
(* pkg/nvremoted driven as cmd/nvremoted/commands/start.go drives it: the  *)
(* connected hook adds the client, a "join" message joins a channel, any   *)
(* unregistered message is relayed, the disconnected hook kicks the        *)
(* client.  LeaveChannel is exported and may be called as well.            *)
(***************************************************************************)
Reasons == {"quit"}
serveVars == <<nextID, reads, clientVars, registryVars, channelVars,
               ticks, pingPc, pingTodo, crashed, configVars>>

called(op, id, name) ==
    /\ nvCall' = [op |-> op, id |-> id, name |-> name]
    /\ nvOps' = nvOps + 1
    /\ UNCHANGED serveVars

\* handleConnected: a Client whose Send channel is open
NVRD_AddClient(id) ==
    /\ nvOps < MaxOps
    /\ id \notin nvrd.closed
    /\ nvrd' = AddClient(nvrd, id)
    /\ called("AddClient", id, "")

\* joinMessage.Handle
NVRD_JoinChannel(name, connectionType, id) ==
    /\ nvOps < MaxOps
    /\ nvrd' = JoinChannel(nvrd, name, connectionType, id)
    /\ called("JoinChannel", id, name)

NVRD_LeaveChannel(id, reason) ==
    /\ nvOps < MaxOps
    /\ nvrd' = LeaveChannel(nvrd, id, reason)
    /\ called("LeaveChannel", id, "")

\* handleDefault
NVRD_Send(id) ==
    /\ nvOps < MaxOps
    /\ nvrd' = Relay(nvrd, id, KeyObject)
    /\ called("Send", id, "")

\* handleDisconnected
NVRD_Kick(id, reason) ==
    /\ nvOps < MaxOps
    /\ nvrd' = Kick(nvrd, id, reason)
    /\ called("Kick", id, "")

NextNVRD ==
    \/ \E id \in Clients : NVRD_AddClient(id)
    \/ \E id \in Clients, name \in ChannelNames, t \in ConnTypes :
          NVRD_JoinChannel(name, t, id)
    \/ \E id \in Clients, reason \in Reasons : NVRD_LeaveChannel(id, reason)
    \/ \E id \in Clients : NVRD_Send(id)
    \/ \E id \in Clients, reason \in Reasons : NVRD_Kick(id, reason)

SpecNVRD == Init /\ [][NextNVRD]_vars

(***************************************************************************)
(* Properties.                                                             *)
(***************************************************************************)
\* the session's id occurs in the member list of channel n
IsMember(c, n) == IndexOf(chMembers[n], c) # 0

\* the handler of c holds joinChannel's reply for n and has not yet stored
\* the channel in c.channel
CompletingJoin(c, n) == hdPc[c] = "joinCopy" /\ hdRes[c].ok /\ hdReq[c].channel = n

\* C1 as stated: in every reachable state a session's id occurs in the member
\* list of at most one channel, and whenever it occurs in the member list of
\* channel n the session's c.channel refers to n.
C1_SingleChannel_asStated ==
    \A c \in Clients :
        /\ \A n1, n2 \in ChannelNames : IsMember(c, n1) /\ IsMember(c, n2) => n1 = n2
        /\ \A n \in ChannelNames : IsMember(c, n) => clChannel[c] = n

\* C1, amended: a session's id occurs in the member list of at most one
\* channel, and whenever it occurs in the member list of channel n either
\* c.channel refers to n or the session's handler is still completing its join
\* of n (the channel task appends the member before the handler stores
\* c.channel); conversely c.channel never refers to a channel other than the
\* one the session is a member of.
C1_SingleChannel ==
    \A c \in Clients :
        /\ \A n1, n2 \in ChannelNames : IsMember(c, n1) /\ IsMember(c, n2) => n1 = n2
        /\ \A n \in ChannelNames :
              IsMember(c, n) => clChannel[c] = n \/ CompletingJoin(c, n)
        /\ \A n \in ChannelNames :
              IsMember(c, n) /\ clChannel[c] # NoChannel => clChannel[c] = n

\* two sessions are members of two different channels, each with c.channel set
C1_Witness ==
    \E c1, c2 \in Clients :
        /\ IsMember(c1, PlainName) /\ clChannel[c1] = PlainName
        /\ IsMember(c2, E2eName) /\ clChannel[c2] = E2eName

\* the relay loop of channel n makes a step
RelayStep(n) ==
    /\ chPc[n] = "msgBcast"
    /\ <<chPc[n], chIdx[n]>>' # <<chPc[n], chIdx[n]>>

\* the relay loop of channel n starts: the channel task has taken a message
\* from a sender's handler
RelayStart(n) == chPc[n] = "idle" /\ chPc'[n] = "msgBcast"

\* C2: a relay message of origin O sent on channel n is enqueued on the inbox
\* of every member of n other than O (the loop visits the members one by one,
\* none is passed over, and it ends only behind the last), never on O's own
\* inbox, and never on the inbox of a session that is not a member of n; O is
\* a member of n when the channel task takes the message.
C2_BroadcastExclusion ==
    [][\A n \in ChannelNames :
          /\ RelayStart(n) =>
                /\ chEv'[n].name = "channel_message"
                /\ IsMember(chEv'[n].origin, n)
                /\ chIdx'[n] = 1
          /\ RelayStep(n) =>
                LET id == chMembers[n].arr[chIdx[n]].id
                IN  /\ chIdx[n] \in 1 .. chMembers[n].len
                    /\ chMembers'[n] = chMembers[n]
                    /\ IF id = chEv[n].origin
                       THEN events' = events
                       ELSE /\ IsMember(id, n)
                            /\ events' = [events EXCEPT ![id] = Append(@, chEv[n])]
                    /\ \/ /\ chIdx[n] < chMembers[n].len
                          /\ chIdx'[n] = chIdx[n] + 1
                          /\ chPc'[n] = "msgBcast"
                       \/ /\ chIdx[n] = chMembers[n].len
                          /\ chPc'[n] = "idle"]_vars

\* a relay has been completed on a channel of two members: the other member
\* holds the message in its inbox, the origin holds nothing
C2_Witness ==
    \E n \in ChannelNames, o, x \in Clients :
        /\ o # x
        /\ IsMember(o, n) /\ IsMember(x, n)
        /\ chPc[n] = "idle"
        /\ events[x] = <<channelMessage(o, KeyObject)>>
        /\ events[o] = <<>>

\* the ids of a sequence of members
Ids(ms) == {ms[k].id : k \in DOMAIN ms}

\* C3: the clients list of every channel_joined response on a session's
\* connection equals the members that were in the channel immediately before
\* the session's join was applied, and never contains the joiner itself.
C3_RosterAccuracy ==
    \A c \in Clients : \A k \in DOMAIN sent[c] :
        sent[c][k].type = "channel_joined" =>
            /\ sent[c][k].clients = hdRes[c].atJoin
            /\ c \notin Ids(sent[c][k].clients)

\* C4 as stated: a channel name is a key of registry.channels if and only if
\* the channel's member list is non-empty or its pendingJoins is positive.
C4_RegistryPresence_asStated ==
    \A n \in ChannelNames :
        n \in regChannels <=> (chMembers[n].len > 0 \/ chPending[n] > 0)

\* C4, amended: a channel whose member list is non-empty or whose pendingJoins
\* is positive is a key of registry.channels; a key of registry.channels has a
\* non-empty member list or a positive pendingJoins, or its channel task is
\* inside the parts case, between the removal of its last member and its turn
\* at the registry lock.
C4_RegistryPresence ==
    \A n \in ChannelNames :
        /\ (chMembers[n].len > 0 \/ chPending[n] > 0) => n \in regChannels
        /\ n \in regChannels =>
              (chMembers[n].len > 0 \/ chPending[n] > 0 \/ chPc[n] = "partLock")
        /\ n \in regChannels <=> chPc[n] # "none"

\* both channels have been created, one has emptied and removed itself from
\* the registry, the other is still populated
C4_Witness ==
    \E n1, n2 \in ChannelNames :
        /\ maxChannels = 2
        /\ n1 \in regChannels /\ chMembers[n1].len > 0
        /\ n2 \notin regChannels /\ chMembers[n2].len = 0 /\ chPending[n2] = 0

\* no join and no part is being processed: every handler is outside
\* joinChannel and every channel task is in its select
Quiescent ==
    /\ \A c \in Clients : hdPc[c] \notin {"joinLock", "joinSend", "joinCopy"}
    /\ \A n \in ChannelNames : chPc[n] \in {"none", "idle", "msgBcast"}

\* the channels of the registry whose name starts with "E2E_" and is exactly
\* 68 bytes long
EncryptedChannels ==
    {n \in regChannels : Len(n) = 68 /\ SubSeq(n, 1, 4) = "E2E_"}

\* C6: at every quiescent point registry.numE2eChannels equals the number of
\* channels in the registry whose name starts with "E2E_" and is exactly 68
\* bytes long.
C6_EncryptedCounter ==
    Quiescent => numE2eChannels = Cardinality(EncryptedChannels)

\* a quiescent point at which an encrypted and a plain channel are both
\* populated, the plain one bearing the prefix
C6_Witness ==
    /\ Quiescent
    /\ regChannels = {PlainName, E2eName}
    /\ numE2eChannels = 1
    /\ chMembers[PlainName].len > 0 /\ chMembers[E2eName].len > 0

\* C7: registry.maxChannels and registry.maxClients, the peaks a statistics
\* snapshot reports, never decrease from one state to the next.
C7_PeakMonotonicity ==
    [][maxChannels' >= maxChannels /\ maxClients' >= maxClients]_vars

\* both peaks have been raised to 2 and the current counts have fallen back
\* below them
C7_Witness ==
    /\ maxChannels = 2 /\ maxClients = 2
    /\ Cardinality(regChannels) < 2
    /\ Cardinality(DOMAIN regClients) < 2

\* C8: once a session is stopped, a further call of stop changes nothing: the
\* stopped flag stays set and the stop reason stays the one given by the
\* first call.
C8_IdempotentStop ==
    [][\A c \in Clients :
          stopped[c] => stopped'[c] /\ stopReason'[c] = stopReason[c]]_vars

\* the handler of session c takes a join for channel n from its reader in
\* this step
TakesJoin(c, n) ==
    /\ reads' = reads + 1
    /\ rdPc[c] = "read" /\ rdPc'[c] # "read"
    /\ hdReq'[c].name = "join" /\ hdReq'[c].channel = n

\* C9: when a session that is a member of channel n1 sends a join for a
\* different channel n2, the session is not terminated and is not refused:
\* it is parted from n1 and joined to n2.  The step in which the handler
\* takes the join neither stops the session nor answers with an error.
C9_ChannelSwitch ==
    [][\A c \in Clients : \A n1, n2 \in ChannelNames :
          (n1 # n2 /\ IsMember(c, n1) /\ clChannel[c] = n1 /\ TakesJoin(c, n2)) =>
              /\ ~stopped'[c]
              /\ \A k \in DOMAIN sent'[c] : k > Len(sent[c]) => sent'[c][k].type # "error"]_vars

\* C10: when a session sends a join naming the channel n it is already a
\* member of, it is answered error "Already in channel", it is kept alive,
\* and the member lists, the registry and every inbox stay as they are.
C10_DuplicateJoin ==
    [][\A c \in Clients : \A n \in ChannelNames :
          (IsMember(c, n) /\ clChannel[c] = n /\ TakesJoin(c, n)) =>
              /\ ~connBroken'[c] =>
                    sent'[c] = Append(sent[c], ClientErrorResponse("Already in channel"))
              /\ stopped'[c] = stopped[c]
              /\ chMembers' = chMembers
              /\ events' = events
              /\ UNCHANGED registryVars]_vars

\* every member of channel n has parted and no join for n is in flight, and n
\* is still in the registry
AllParted(n) == n \in regChannels /\ chMembers[n].len = 0 /\ chPending[n] = 0

\* channel n is no longer in the registry and its task has returned
Collected(n) == n \notin regChannels /\ chPc[n] = "none"

\* C5: if every member of a channel has parted and no join for it is in
\* flight, then eventually the channel is removed from the registry and its
\* task has exited, unless a new join for the channel comes in flight first;
\* the channel tasks, the handlers, the supervisors and the ticker are
\* scheduled fairly.
C5_ChannelGC ==
    \A n \in ChannelNames : AllParted(n) ~> (Collected(n) \/ chPending[n] > 0)


(***************************************************************************)
(* Verbs.                                                                  *)
(***************************************************************************)
\* the handler of session c takes the message m from its reader in this step
Takes(c, m) ==
    /\ reads' = reads + 1
    /\ rdPc[c] = "read" /\ hdPc[c] = "select" /\ ~connBroken[c]
    /\ hdReq'[c] = m
    /\ \A d \in Clients \ {c} :
          /\ hdReq'[d] = hdReq[d] /\ rdPc'[d] = rdPc[d]
          /\ stopped'[d] = stopped[d] /\ sent'[d] = sent[d]

\* the messages whose type is not a recognised verb
UnknownVerbs == {RelayMessage(p) : p \in Payloads} \cup {PongMessage}

\* C11: a message whose type is not a recognised verb, sent by a session that
\* is in no channel, is answered with exactly one error reply ("Type unknown,
\* and not in a channel to relay"), is put in nobody's inbox and does not stop
\* the session.
C11_UnknownVerbOutsideChannel ==
    [][\A c \in Clients : \A m \in UnknownVerbs :
          (clChannel[c] = NoChannel /\ Takes(c, m)) =>
              /\ events' = events
              /\ ~connBroken'[c] =>
                    /\ sent'[c] = Append(sent[c],
                          ClientErrorResponse("Type unknown, and not in a channel to relay"))
                    /\ stopped'[c] = stopped[c]]_vars

\* C12: a protocol_version message with version 2 is not answered and leaves
\* the session running; with any other version the session is sent a
\* version_mismatch message and is stopped with reason "Version mismatch".
C12_ProtocolVersion ==
    [][\A c \in Clients : \A v \in Versions :
          Takes(c, ClientProtocolVersionMessage(v)) =>
              IF v = 2
              THEN sent'[c] = sent[c] /\ stopped'[c] = stopped[c]
              ELSE ~connBroken'[c] =>
                      /\ Len(sent'[c]) = Len(sent[c]) + 1
                      /\ sent'[c][Len(sent'[c])].type = "version_mismatch"
                      /\ stopped'[c]
                      /\ stopReason'[c] = "Version mismatch"]_vars

\* a stats snapshot is written to session c in this step
SendsStats(c) ==
    /\ Len(sent'[c]) = Len(sent[c]) + 1
    /\ sent'[c][Len(sent'[c])].type = "stats"

\* C13: a stats snapshot is sent to a session only if the session is in no
\* channel and its stat request carried a non-empty password equal to the
\* configured stats password; with no password configured no snapshot is
\* ever sent.
C13_StatsGating ==
    [][\A c \in Clients :
          SendsStats(c) =>
              /\ clChannel[c] = NoChannel
              /\ hdReq'[c].name = "stat"
              /\ hdReq'[c].password # ""
              /\ hdReq'[c].password = statsPassword
              /\ statsPassword # ""]_vars

\* a session has been sent a snapshot, and another one, on a server with no
\* password configured or in a channel, has been refused
C13_Witness ==
    /\ \E c \in Clients : \E k \in DOMAIN sent[c] : sent[c][k].type = "stats"
    /\ \E c \in Clients :
          /\ hdReq[c].name = "stat"
          /\ stopReason[c] \in {"wrong stats password", "no stats password provided",
                               "protocol error"}

\* C14: an inbound pong, from a session in a channel or not, is not answered,
\* is put in nobody's inbox and is not handed to a channel, changes no
\* registry or channel state and does not stop the session.
C14_PongDiscarded ==
    [][\A c \in Clients :
          Takes(c, PongMessage) =>
              /\ sent'[c] = sent[c]
              /\ stopped'[c] = stopped[c]
              /\ hdPc'[c] = "select"
              /\ events' = events
              /\ chMembers' = chMembers
              /\ UNCHANGED registryVars]_vars


(***************************************************************************)
(* Pings.                                                                  *)
(***************************************************************************)
\* the handler of session c takes an event of this name from c.events in this
\* step
TakesEvent(c, name) ==
    /\ hdPc[c] = "select" /\ hdPc'[c] = "select"
    /\ events[c] # <<>>
    /\ Head(events[c]).name = name
    /\ events'[c] = Tail(events[c])

\* C15: when a session's handler takes a ping from its events inbox, nothing
\* goes through the JSON encoder (the ping is a bare newline on the wire) and
\* the session is not stopped: a ping never ends a session with "internal
\* error".
C15_PingHandling ==
    [][\A c \in Clients :
          TakesEvent(c, "ping") =>
              /\ stopReason'[c] # "internal error"
              /\ ~connBroken'[c] => (stopped'[c] = stopped[c] /\ sent'[c] = sent[c])]_vars

\* the sessions that are served: accepted, not stopped, handler running
Served == {c \in Clients : hdPc[c] \notin {"off", "done"} /\ ~stopped[c]}

\* C16: on every tick the ticker sets out to enqueue a ping for every session
\* that is served, whether or not it has joined a channel.
C16_PingCoverage ==
    [][ticks' = ticks + 1 => \A c \in Served : c \in pingTodo']_vars


(***************************************************************************)
(* Notifications.                                                          *)
(***************************************************************************)
\* the channel task of n takes a join that it accepts, from session c
JoinAccepted(n, c) ==
    /\ hdPc[c] = "joinSend" /\ hdPc'[c] = "joinCopy"
    /\ hdReq[c].channel = n
    /\ hdRes'[c].ok

\* the loop that tells the members of n about a join makes a step
JoinStep(n) ==
    /\ chPc[n] = "joinBcast"
    /\ <<chPc[n], chIdx[n]>>' # <<chPc[n], chIdx[n]>>

\* C17: on every successful join, exactly one joined event carrying the
\* joiner's id and connection type is enqueued for each member that was in
\* the channel before the join (the loop starts at the first member, visits
\* the members one by one and ends only behind the last, and the joiner is
\* appended to the member list after it), and none is enqueued for the
\* joiner.
C17_JoinNotification ==
    [][\A n \in ChannelNames :
          /\ \A c \in Clients : JoinAccepted(n, c) =>
                /\ ~IsMember(c, n)
                /\ events' = events
                /\ IF chMembers[n].len = 0
                   THEN chPc'[n] = "idle"
                   ELSE /\ chPc'[n] = "joinBcast"
                        /\ chIdx'[n] = 1
                        /\ chReq'[n] = channelMember(c, hdReq[c].connectionType)
                        /\ chEv'[n] = joinedChannelMSG(chReq'[n])
                        /\ chMembers'[n] = chMembers[n]
          /\ JoinStep(n) =>
                LET id == chMembers[n].arr[chIdx[n]].id
                IN  /\ chIdx[n] \in 1 .. chMembers[n].len
                    /\ id # chReq[n].id
                    /\ ~IsMember(chReq[n].id, n)
                    /\ events' = [events EXCEPT ![id] = Append(@, joinedChannelMSG(chReq[n]))]
                    /\ \/ /\ chIdx[n] < chMembers[n].len
                          /\ chIdx'[n] = chIdx[n] + 1
                          /\ chPc'[n] = "joinBcast"
                          /\ chMembers'[n] = chMembers[n] /\ chReq'[n] = chReq[n]
                          /\ chEv'[n] = chEv[n]
                       \/ /\ chIdx[n] = chMembers[n].len
                          /\ chPc'[n] = "idle"
                          /\ SliceElems(chMembers'[n]) =
                                Append(SliceElems(chMembers[n]), chReq[n])]_vars

\* a third session has joined a channel of two: both earlier members hold
\* its joined event, the joiner holds nothing
C17_Witness ==
    \E a, b, j \in Clients :
        /\ a # b /\ a # j /\ b # j
        /\ chPc[PlainName] = "idle"
        /\ chMembers[PlainName].len = 3
        /\ IsMember(a, PlainName) /\ IsMember(b, PlainName)
        /\ chMembers[PlainName].arr[3].id = j
        /\ events[a] = <<joinedChannelMSG(chMembers[PlainName].arr[3])>>
        /\ events[b] = <<joinedChannelMSG(chMembers[PlainName].arr[3])>>
        /\ events[j] = <<>>


\* the channel task of n takes the part of session c
PartTaken(n, c) ==
    /\ chPc[n] = "idle"
    /\ supPc[c] = "leaveSend" /\ supPc'[c] # "leaveSend"
    /\ clChannel[c] = n

\* the loop that tells the members of n about a part makes a step
PartStep(n) ==
    /\ chPc[n] = "partBcast"
    /\ <<chPc[n], chIdx[n]>>' # <<chPc[n], chIdx[n]>>

\* the left event of member m carries this reason, or none when it is empty
CarriesReason(ev, reason) ==
    IF reason = "" THEN "reason" \notin DOMAIN ev
    ELSE "reason" \in DOMAIN ev /\ ev.reason = reason

\* C18: when a member is removed from a channel, every member that remains,
\* and nobody else, is sent exactly one left event that identifies the
\* departed member (id and connection type) and carries the reason of the
\* departure; the part of an id that is not a member sends nothing.
C18_PartNotification ==
    [][\A n \in ChannelNames :
          /\ \A c \in Clients : PartTaken(n, c) =>
                LET i == IndexOf(chMembers[n], c)
                IN  /\ events' = events
                    /\ IF i = 0
                       THEN chPc'[n] = "partLock" /\ chMembers'[n] = chMembers[n]
                       ELSE /\ SliceElems(chMembers'[n]) =
                                  [k \in 1 .. (chMembers[n].len - 1) |->
                                      IF k < i THEN chMembers[n].arr[k]
                                      ELSE chMembers[n].arr[k + 1]]
                            /\ IF chMembers[n].len = 1
                               THEN chPc'[n] = "partLock"
                               ELSE /\ chPc'[n] = "partBcast"
                                    /\ chIdx'[n] = 1
                                    /\ chEv'[n].name = "left_channel"
                                    /\ chEv'[n].member = chMembers[n].arr[i]
                                    /\ CarriesReason(chEv'[n], stopReason[c])
          /\ PartStep(n) =>
                LET id == chMembers[n].arr[chIdx[n]].id
                IN  /\ chIdx[n] \in 1 .. chMembers[n].len
                    /\ id # chEv[n].member.id
                    /\ events' = [events EXCEPT ![id] = Append(@, chEv[n])]
                    /\ chMembers'[n] = chMembers[n]
                    /\ \/ /\ chIdx[n] < chMembers[n].len
                          /\ chIdx'[n] = chIdx[n] + 1
                          /\ chPc'[n] = "partBcast"
                          /\ chEv'[n] = chEv[n]
                       \/ /\ chIdx[n] = chMembers[n].len
                          /\ chPc'[n] = "partLock"]_vars


\* the supervisor of session c has closed neither the events inbox nor the
\* byte stream, and is not about to: the session has not been parted
Unparted(c) == supPc[c] \in {"wait", "leaveSend"} /\ ~eventsClosed[c]

\* C20 as stated: every member in any channel's member list belongs to a
\* session that is still live (its supervisor has closed neither its events
\* inbox nor its byte stream) and whose c.channel refers to that channel.
C20_NoDangling_asStated ==
    \A n \in ChannelNames : \A c \in Clients :
        IsMember(c, n) => Unparted(c) /\ clChannel[c] = n

\* C20, amended: every member in any channel's member list belongs to a
\* session that is still live, and either its c.channel refers to that channel
\* or its handler holds the channel task's reply to its join of that channel
\* and is about to store it in c.channel.
C20_NoDangling ==
    \A n \in ChannelNames : \A c \in Clients :
        IsMember(c, n) =>
            /\ Unparted(c)
            /\ clChannel[c] = n \/ (CompletingJoin(c, n) /\ clChannel[c] = NoChannel)

\* a member whose session is stopped, whose reader and handler have returned
\* and whose supervisor is about to part it, beside a member that is served
C20_Witness ==
    \E n \in ChannelNames : \E c, d \in Clients :
        /\ c # d
        /\ IsMember(c, n) /\ IsMember(d, n)
        /\ stopped[c] /\ hdPc[c] = "done" /\ supPc[c] = "leaveSend"
        /\ ~stopped[d] /\ clChannel[d] = n


\* the client is registered with c.ch naming this channel, and is listed once
\* in this channel's members and in no other channel's
MemberOfExactly(nv, id, name) ==
    /\ id \in DOMAIN nv.clients
    /\ nv.clients[id] = name
    /\ name \in DOMAIN nv.channels
    /\ Cardinality({i \in 1 .. Len(nv.channels[name]) :
                       nv.channels[name][i].id = id}) = 1
    /\ \A n \in DOMAIN nv.channels \ {name} : memberIndex(nv.channels[n], id) = 0

\* C19: NVRD.JoinChannel called for a registered client returns no error,
\* whether the client is in no channel, in another channel or already in the
\* requested channel, and when it returns the client is a member of the
\* requested channel and of no other.
C19_JoinSwitchesChannel ==
    [][\A id \in Clients, name \in ChannelNames, t \in ConnTypes :
          (id \in DOMAIN nvrd.clients /\ NVRD_JoinChannel(name, t, id))
          => (nvrd'.err = "" /\ MemberOfExactly(nvrd', id, name))]_vars

\* a client rejoined the channel it was in while another member was there:
\* the other member was told it left, and it was welcomed twice
C19_Witness ==
    \E id \in DOMAIN nvrd.clients, other \in DOMAIN nvrd.clients :
        /\ other # id
        /\ nvCall = [op |-> "JoinChannel", id |-> id, name |-> PlainName]
        /\ nvrd.err = ""
        /\ MemberOfExactly(nvrd, id, PlainName)
        /\ MemberOfExactly(nvrd, other, PlainName)
        /\ Cardinality({i \in 1 .. Len(nvrd.send[id]) :
                           /\ nvrd.send[id][i].type = "channel_joined"
                           /\ nvrd.send[id][i].channel = PlainName}) >= 2
        /\ \E i \in 1 .. Len(nvrd.send[other]) :
              /\ nvrd.send[other][i].type = "client_left"
              /\ nvrd.send[other][i].client.id = id
              /\ nvrd.send[other][i].reason = "Client switched channels"

\* the channel task takes the relay message of session c
RelayTaken(n, c) == start_messages(n, c) /\ chMembers[n].len # 0

\* the handler of session c writes the relay event at the head of its inbox
RelayWritten(c) ==
    /\ events[c] # <<>>
    /\ Head(events[c]).name = "channel_message"
    /\ handleClient_events(c, FALSE)
    /\ ~connBroken[c]

\* object out is object in with its origin field set to id
OriginInjected(in, out, id) ==
    /\ DOMAIN out = DOMAIN in \cup {"origin"}
    /\ \A k \in DOMAIN in \ {"origin"} : out[k] = in[k]
    /\ out.origin = id

\* C21: a relay message travels with its sender's session id: the event the
\* channel task hands out carries the sender's object as decoded and the
\* sender's id, and the object written to a member has every field of the
\* sender's object with origin set to that id, also when the sender's object
\* had an origin field of its own with another value.
C21_OriginInjection ==
    [][/\ \A n \in ChannelNames, c \in Clients :
            RelayTaken(n, c)
            => chEv'[n].origin = c /\ chEv'[n].msg = hdReq[c].msg
       /\ \A x \in Clients :
            RelayWritten(x)
            => /\ Len(sent'[x]) = Len(sent[x]) + 1
               /\ OriginInjected(Head(events[x]).msg,
                                 sent'[x][Len(sent'[x])].msg,
                                 Head(events[x]).origin)
       /\ \A y \in Clients : \A i \in 1 .. Len(sent'[y]) :
            sent'[y][i].type = "relay"
            => /\ sent'[y][i].msg.origin \in 0 .. (nextID - 1)
               /\ sent'[y][i].msg.origin # y
               /\ \E p \in Payloads :
                     OriginInjected(p, sent'[y][i].msg, sent'[y][i].msg.origin)]_vars

\* a member has been written a relay message whose sender's object named an
\* origin that is not the sender's id
C21_Witness ==
    \E c \in Clients : \E i \in 1 .. Len(sent[c]) :
        /\ sent[c][i].type = "relay"
        /\ OriginInjected(ForgedObject, sent[c][i].msg, sent[c][i].msg.origin)
        /\ sent[c][i].msg.origin # ForgedObject.origin
        /\ sent[c][i].msg.origin \in DOMAIN regClients

\* C22: a join whose channel or connection_type is empty is answered with an
\* error that names the missing field, stops the session, and changes neither
\* the registry (clients, channels, counters) nor any channel's member list,
\* pending joins or task.
C22_InvalidJoin ==
    [][\A c \in Clients : \A m \in InvalidJoins :
          (\E fail \in BOOLEAN : handleClientJoin(c, m, fail)) =>
              /\ stopped'[c]
              /\ UNCHANGED <<registryVars, chMembers, chPending, chPc>>
              /\ ~connBroken'[c] =>
                    sent'[c] = Append(sent[c], ClientErrorResponse(
                        IF m.channel = "" THEN "no channel specified"
                        ELSE "no connection_type specified"))]_vars

\* a session was stopped over an invalid join while another session was a
\* member of a channel
C22_Witness ==
    \E c \in Clients, d \in Clients :
        /\ hdReq[c] \in InvalidJoins
        /\ stopReason[c] = "protocol error"
        /\ sent[c] = <<ClientErrorResponse("no connection_type specified")>>
        /\ d # c
        /\ clChannel[d] # NoChannel
        /\ d \in DOMAIN regClients

\* the reader of session c fails to decode an inbound object
DecodeError(c) ==
    \/ \E fail \in BOOLEAN : readFromClient_typeError(c, fail)
    \/ readFromClient_otherError(c)

\* C23: whenever an inbound object fails to decode, be it text that is not
\* JSON or a known verb with a field of the wrong type, the session is sent
\* the error "malformed message" and is stopped.
C23_DecodeError ==
    [][\A c \in Clients :
          DecodeError(c) =>
              /\ stopped'[c]
              /\ ~connBroken'[c] =>
                    sent'[c] = Append(sent[c], ClientErrorResponse("malformed message"))]_vars

\* a step of session c that calls c.send: a write on its connection is
\* attempted
WriteAttempt(c) ==
    \E fail \in BOOLEAN :
        \/ handleClient_events(c, fail)
        \/ handleClientJoin_reply(c, fail)
        \/ readFromClient_typeError(c, fail)

\* C24: the step in which a write on a session's connection fails leaves the
\* session stopped with reason "Send error", and from then on no step of the
\* session attempts another write, whatever events it still has to process.
C24_SendError ==
    [][\A c \in Clients :
          /\ (~connBroken[c] /\ connBroken'[c])
                => (stopped'[c] /\ stopReason'[c] = "Send error")
          /\ connBroken[c] => ~WriteAttempt(c)]_vars

\* C25: with TimeBetweenPings = 0 no session is ever stopped because its read
\* deadline expired, whatever PingsUntilTimeout is: "Client timed out" is the
\* stop reason of no session.
C25_IdleTimeout ==
    \A c \in Clients : stopReason[c] # "Client timed out"

\* the positions of the motd messages on the connection of session c
Motds(c) == {i \in 1 .. Len(sent[c]) : sent[c][i].type = "motd"}

\* C26: with a non-empty MOTD the first message written to a session is the
\* motd message, with force_display false, and no other motd message follows
\* it; a session whose handler is past its first step on an intact connection
\* has been written it.  With an empty MOTD no session is written a motd
\* message.
C26_MotdOnce ==
    \A c \in Clients :
        IF MOTD = ""
        THEN Motds(c) = {}
        ELSE /\ Motds(c) \subseteq {1}
             /\ sent[c] # <<>> => sent[c][1] = ClientMOTDResponse(MOTD)
             /\ (hdPc[c] \notin {"off", "motd"} /\ ~connBroken[c] /\ supPc[c] # "closed")
                   => Motds(c) = {1}

\* C27: registry.maxChannelsTime changes only in a step in which
\* registry.maxChannels strictly increases, and registry.maxClientsTime only
\* in a step in which registry.maxClients strictly increases: a count that
\* comes back to its peak without exceeding it leaves the timestamp alone.
C27_PeakTimestamps ==
    [][/\ maxChannelsTime' # maxChannelsTime => maxChannels' > maxChannels
       /\ maxClientsTime' # maxClientsTime => maxClients' > maxClients]_vars

\* sessions 0 and 1 set the peak of two clients, one of them left, and the
\* join of session 2 brought the count back to two at a later instant: the
\* timestamp is still that of the second join
C27_Witness ==
    /\ 2 \in DOMAIN regClients
    /\ Cardinality(DOMAIN regClients) = 2
    /\ maxClients = 2
    /\ reads = 3
    /\ maxClientsTime = 2

\* the handler of c has noted its join in n's pendingJoins and waits for the
\* channel task to receive it
JoinPending(c, n) == hdPc[c] = "joinSend" /\ hdReq[c].channel = n

\* the last member of n is parting: its supervisor is about to send the part,
\* or the task has removed it and has yet to take the registry lock
LastPart(n) ==
    \/ /\ chMembers[n].len = 1
       /\ supPc[chMembers[n].arr[1].id] = "leaveSend"
    \/ /\ chMembers[n].len = 0
       /\ chPc[n] = "partLock"

\* C28: a channel with a pending join stays in the registry and its task
\* keeps running; and a join that is pending while the channel's last member
\* parts is received and answered by that task, whichever of the two it takes
\* first: the joiner becomes a member of the channel, which is in the registry.
C28_JoinPartRace ==
    /\ [](\A n \in ChannelNames :
             chPending[n] > 0 => (n \in regChannels /\ chPc[n] # "none"))
    /\ \A c \in Clients, n \in ChannelNames :
          (JoinPending(c, n) /\ LastPart(n))
             ~> (IsMember(c, n) /\ n \in regChannels /\ chPc[n] # "none")

\* C29: a stopped session is eventually torn down: its reader and its handler
\* have finished, its supervisor's part has been answered and the session is
\* in no channel's member list, its events inbox is closed and empty and its
\* connection is closed.
C29_TeardownCompletes ==
    \A c \in Clients :
        stopped[c] ~> /\ rdPc[c] = "done"
                      /\ hdPc[c] = "done"
                      /\ supPc[c] = "closed"
                      /\ eventsClosed[c]
                      /\ events[c] = <<>>
                      /\ \A n \in ChannelNames : ~IsMember(c, n)

\* C30: the handlers, the channel tasks and the ticker never wait on each
\* other for ever: unless the process has ended, a handler that sends a relay
\* message to its channel's task gets back to its select, the task's loop over
\* the members comes to its end, so that the message is in the inbox of every
\* other member, and the ticker gets through the registry and releases the
\* read lock.
C30_NoDeadlock ==
    /\ \A c \in Clients : hdPc[c] = "msgSend" ~> (hdPc[c] # "msgSend" \/ crashed)
    /\ \A n \in ChannelNames : chPc[n] = "msgBcast" ~> (chPc[n] = "idle" \/ crashed)
    /\ pingPc = "loop" ~> (pingPc = "idle" \/ crashed)


\* the channel task of n is at `member.events <- msg` for the inbox of c
SendingTo(n, c) ==
    /\ chPc[n] \in {"joinBcast", "msgBcast", "partBcast"}
    /\ chIdx[n] \in 1..chMembers[n].len
    /\ chMembers[n].arr[chIdx[n]].id = c

\* Server.Serve holds the read lock and has yet to send its ping to c
PingingTo(c) == pingPc = "loop" /\ c \in pingTodo

\* C31: nothing is sent on a closed events inbox (the process has not
\* panicked), and once the supervisor has closed a session's inbox no channel
\* task and no ticker is at a send on it, the session is in no channel's
\* member list and it is not in the registry's client index.
C31_NoSendOnClosed ==
    /\ ~crashed
    /\ \A c \in Clients :
           eventsClosed[c] =>
               /\ \A n \in ChannelNames : ~SendingTo(n, c) /\ ~IsMember(c, n)
               /\ ~PingingTo(c)
               /\ c \notin DOMAIN regClients


\* the handler of c is inside the handler function of a message it received
\* on c.recv, and has not signalled c.readNext yet
Processing(c) == hdPc[c] \in {"joinLock", "joinSend", "joinCopy", "msgSend", "penalty"}

\* the reader of c is at unmarshalClientMessage, taking bytes from the stream
Decoding(c) == rdPc[c] = "read"

\* C32: while the handler of a session is processing a message of the peer
\* (the wrong-password penalty included) the session's reader waits on
\* c.readNext: it is not decoding, and no step decodes a further message of
\* that session.
C32_ReadNextGate ==
    \A c \in Clients : Processing(c) => ~Decoding(c) /\ rdPc[c] = "waitNext"

\* a session sits out the wrong-password penalty while another one is inside
\* a join
C32_Witness ==
    \E c, d \in Clients :
        /\ hdPc[c] = "penalty" /\ rdPc[c] = "waitNext"
        /\ hdPc[d] \in {"joinSend", "joinCopy"} /\ rdPc[d] = "waitNext"


\* the handler of c stops the session in this step, inside the handler
\* function of a message of the peer: either the message is decoded and
\* handled in this step, or the handler was already inside the function
PeerStop(c) ==
    /\ ~stopped[c] /\ stopped'[c]
    /\ Processing(c) \/ (Decoding(c) /\ reads' = reads + 1)

\* C33: a session that its handler stops while processing a message of the
\* peer is read no further: at the end of the step the reader has left its
\* loop, or it still waits on c.readNext and leaves the loop when the wait
\* ends; a reader that has left its loop stays out, so that no further object
\* is decoded and none is handed to the handler.
C33_StopBeforeNext ==
    [][\A c \in Clients :
          /\ PeerStop(c) => rdPc'[c] = "done" \/ (Processing(c)' /\ rdPc'[c] = "waitNext")
          /\ stopped[c] /\ rdPc[c] = "waitNext" => rdPc'[c] \in {"waitNext", "done"}
          /\ rdPc[c] = "done" => rdPc'[c] = "done" /\ hdReq'[c] = hdReq[c]]_vars


\* a session was stopped by its handler for a protocol error on an intact
\* connection; its reader has left the loop although the peer could send more
C33_Witness ==
    \E c \in Clients :
        /\ stopped[c] /\ stopReason[c] = "protocol error" /\ ~connBroken[c]
        /\ rdPc[c] = "done" /\ hdPc[c] = "select"
        /\ reads < traffic


\* the responses that handleClientChannelEvent and the joined/left event
\* handlers write for the events of a channel task
IsChannelEventResponse(r) == r.type \in {"client_joined", "client_left", "relay"}

IsChannelEvent(ev) == ev.name \in clientEventHandlers

\* the session an event response is about: the sender of a relayed message,
\* the member that joined or left
Subject(r) == IF r.type = "relay" THEN r.origin ELSE r.client.id

\* the events of its channel's task that have reached the inbox of c, in the
\* order of their arrival: those the handler has taken out and written, then
\* those still waiting in c.events
Received(c) ==
    LET inbox == SelectSeq(events[c], IsChannelEvent)
    IN  SelectSeq(sent[c], IsChannelEventResponse)
            \o [i \in 1..Len(inbox) |-> EventResponse(inbox[i])]

Once(s, e) == Cardinality({i \in DOMAIN s : s[i] = e}) = 1

Broadcasting(n) == chPc[n] \in {"joinBcast", "msgBcast", "partBcast"}

Sends(x, p) == hdPc[x] = "msgSend" /\ hdReq[x].msg = p

\* c is a member of the channel x is in
Hears(c, x) == clChannel[x] # NoChannel /\ IsMember(c, clChannel[x])

\* the positions in the transcript of c of the relayed payload p of sender x
WrittenAt(c, x, p) == {i \in DOMAIN sent[c] : sent[c][i] = ClientResponse(p, x)}

\* C35: if a session sends the relay message p while c is a member of its
\* channel, and later the different message q, then c is never written q
\* before p (where each has been written once).
C35_SenderFifo ==
    \A x, c \in Clients : \A p, q \in FifoPayloads :
        x # c /\ p # q =>
            [](Sends(x, p) /\ Hears(c, x) =>
                [](Sends(x, q) =>
                    [](\A i \in WrittenAt(c, x, p), j \in WrittenAt(c, x, q) :
                          Cardinality(WrittenAt(c, x, p)) = 1
                              /\ Cardinality(WrittenAt(c, x, q)) = 1
                          => i < j)))

\* a member has been written two different messages of the same sender
C35_Witness ==
    \E x, c \in Clients : \E p, q \in FifoPayloads :
        /\ x # c /\ p # q
        /\ WrittenAt(c, x, p) # {} /\ WrittenAt(c, x, q) # {}


\* the reader of c writes to the stream: c.sendError("malformed message")
ReaderWrite(c) == \E fail \in BOOLEAN : readFromClient_typeError(c, fail)

\* the handler of c writes to the stream, outside the handling of a message
\* the reader has just handed over: the motd, an event of c.events, the reply
\* of a join
HandlerWrite(c) ==
    \E fail \in BOOLEAN :
        \/ handleClient_motd(c, fail)
        \/ handleClient_events(c, fail)
        \/ handleClientJoin_reply(c, fail)

\* C36: the reader and the handler of a session never write to the session's
\* encoder concurrently: in no state can both the reader's write of
\* "malformed message" and a write of the handler be the next step, with
\* nothing that orders them.
C36_SerialisedWrites ==
    \A c \in Clients : ~(ENABLED ReaderWrite(c) /\ ENABLED HandlerWrite(c))


\* the joinChannel calls that have run c.pendingJoins++ for channel n and
\* whose request the task has not taken from c.joins yet
Waiting(n) == {c \in Clients : hdPc[c] = "joinSend" /\ hdReq[c].channel = n}

\* the task of n has taken a join request and not reached c.pendingJoins--
InJoin(n) == IF chPc[n] = "joinBcast" THEN 1 ELSE 0

\* C37: a channel's pendingJoins is never negative and equals the number of
\* joinChannel calls that have incremented it and whose request the task has
\* not finished; it goes down by one, and only in the step in which the task
\* finishes a join request.
C37_PendingJoins ==
    /\ [](\A n \in ChannelNames :
            chPending[n] >= 0 /\ chPending[n] = Cardinality(Waiting(n)) + InJoin(n))
    /\ [][\A n \in ChannelNames :
             chPending'[n] < chPending[n] =>
                 /\ chPending'[n] = chPending[n] - 1
                 /\ \/ InJoin(n) = 1 /\ InJoin(n)' = 0
                    \/ \E c \in Waiting(n) : hdPc'[c] = "joinCopy"]_vars

\* two joins of the same channel are pending, one of them being broadcast
C37_Witness ==
    \E n \in ChannelNames :
        chPending[n] = 2 /\ chPc[n] = "joinBcast" /\ Waiting(n) # {}


\* the ids of c.members, in order
MemberIds(n) == [k \in 1 .. chMembers[n].len |-> chMembers[n].arr[k].id]

\* the task of n takes the join request of c from c.joins in this step
TakesJoinRequest(n, c) ==
    /\ chPc[n] = "idle" /\ hdPc[c] = "joinSend" /\ hdReq[c].channel = n
    /\ hdPc'[c] = "joinCopy"

\* C38: no member list holds the same session id twice.  A join request for
\* an id that is in the list is answered with the error and leaves the list
\* as it is, any other is answered with the roster; and a list only ever
\* grows by one id that was not in it.
C38_UniqueMembers ==
    /\ [](\A n \in ChannelNames : \A i, j \in DOMAIN MemberIds(n) :
            MemberIds(n)[i] = MemberIds(n)[j] => i = j)
    /\ [][\A n \in ChannelNames :
             /\ \A c \in Clients :
                   TakesJoinRequest(n, c) =>
                       IF IsMember(c, n)
                       THEN ~hdRes'[c].ok /\ chMembers'[n] = chMembers[n]
                       ELSE hdRes'[c].ok
             /\ Len(MemberIds(n)') > Len(MemberIds(n)) =>
                   \E c \in Clients :
                       /\ ~IsMember(c, n)
                       /\ MemberIds(n)' = Append(MemberIds(n), c)]_vars

\* a channel of three has lost its first member: two members with different
\* ids are left, and the backing array still holds the last one twice
C38_Witness ==
    \E n \in ChannelNames :
        /\ chMembers[n].len = 2 /\ Len(chMembers[n].arr) >= 3
        /\ chMembers[n].arr[3] = chMembers[n].arr[2]
        /\ MemberIds(n)[1] # MemberIds(n)[2]


\* the peaks of a snapshot bound its counts
PeaksBound(st) ==
    st.max_channels >= st.num_channels /\ st.max_clients >= st.num_clients

\* C39: in every statistics snapshot, the one registry.Stats would return now
\* and every one that has been written to a session, max_channels is at
\* least num_channels and max_clients at least num_clients.
C39_PeaksBoundCounts ==
    /\ PeaksBound(Stats)
    /\ \A c \in Clients : \A k \in DOMAIN sent[c] :
          sent[c][k].type = "stats" => PeaksBound(sent[c][k].stats)

\* a session has been written a snapshot that counts a client and a channel
C39_Witness ==
    \E c \in Clients : \E k \in DOMAIN sent[c] :
        /\ sent[c][k].type = "stats"
        /\ sent[c][k].stats.num_clients >= 1
        /\ sent[c][k].stats.num_channels >= 1

====
